---- MODULE Spec2Model ----
(***************************************************************************)
(* Model of the coercion engine (src/core/preprocessor.ts, the part that   *)
(* validator.ts imports as './coercion.js') and of the validation engine   *)
(* (src/core/validator.ts) of ordis-cli.                                   *)
(*                                                                         *)
(* JavaScript values are rendered as records tagged by k:                  *)
(*   undefined, null, boolean (b), number (n), string (s), array (a),      *)
(*   object (o) and function.                                              *)
(* A string is the sequence of its characters, so that trim, toLowerCase,  *)
(* parseFloat and the regular expressions are computed, not assumed.       *)
(* A number is a fixed-point integer counting 1/Scale units; Infinity and  *)
(* -Infinity are the two sentinels +-Infinity.  An object is the sequence  *)
(* of its own (key, value) entries in insertion order; keys, field names   *)
(* and field paths are TLA+ strings.  The human-readable `message' of a    *)
(* warning or an error is not modelled.                                    *)
(***************************************************************************)
EXTENDS Integers, Sequences, FiniteSets, TLC

VARIABLES schema, data, pc, coerceResult, validationResult,
          document, schemaResult, secondResult,
          debug, steps, pipelineResult, heap, calls

vars == <<schema, data, pc, coerceResult, validationResult,
          document, schemaResult, secondResult,
          debug, steps, pipelineResult, heap, calls>>

\* The variables of the other state machines, which the calls of one leave
\* alone.
schemaVars == <<document, schemaResult>>
pipelineVars == <<debug, steps, pipelineResult>>
heapVars == <<heap, calls>>

-----------------------------------------------------------------------------
(* Numbers *)

\* Units per 1: a JS number x is rendered as the integer x * Scale.
Scale == 100

\* The sentinel standing for the IEEE value Infinity (-Infinity is its negation).
Infinity == 1000000000

Abs(x) == IF x < 0 THEN -x ELSE x

IsFinite(n) == n # Infinity /\ n # -Infinity

\* Number.isInteger
NumberIsInteger(n) == IsFinite(n) /\ n % Scale = 0

\* Math.trunc: toward zero; Infinity stays Infinity.
MathTrunc(n) ==
    IF ~IsFinite(n) THEN n
    ELSE IF n >= 0 THEN (n \div Scale) * Scale
    ELSE -((-n \div Scale) * Scale)

-----------------------------------------------------------------------------
(* Values *)

Undefined == [k |-> "undefined"]
Null == [k |-> "null"]
Bool(b) == [k |-> "boolean", b |-> b]
Num(n) == [k |-> "number", n |-> n]
Str(s) == [k |-> "string", s |-> s]
Arr(a) == [k |-> "array", a |-> a]
Obj(o) == [k |-> "object", o |-> o]
\* A member inherited from Object.prototype (constructor, toString, ...).
FunctionValue == [k |-> "function"]

\* The typeof operator.
TypeOf(v) ==
    CASE v.k = "undefined" -> "undefined"
      [] v.k = "null" -> "object"
      [] v.k = "boolean" -> "boolean"
      [] v.k = "number" -> "number"
      [] v.k = "string" -> "string"
      [] v.k = "array" -> "object"
      [] v.k = "object" -> "object"
      [] v.k = "function" -> "function"

IsNullish(v) == v.k = "null" \/ v.k = "undefined"

\* Names every plain object inherits from Object.prototype (the accessor
\* __proto__ is left out: no field of the model is named so).
ObjectPrototypeKeys ==
    {"constructor", "toString", "valueOf", "hasOwnProperty", "isPrototypeOf",
     "propertyIsEnumerable", "toLocaleString"}

OwnKeys(o) == {o[i][1] : i \in 1..Len(o)}

HasOwn(o, key) == key \in OwnKeys(o)

OwnGet(o, key) == o[CHOOSE i \in 1..Len(o) : o[i][1] = key][2]

\* key in obj
HasProperty(o, key) == HasOwn(o, key) \/ key \in ObjectPrototypeKeys

\* obj[key]
Get(o, key) ==
    IF HasOwn(o, key) THEN OwnGet(o, key)
    ELSE IF key \in ObjectPrototypeKeys THEN FunctionValue
    ELSE Undefined

\* obj[key] = v on a plain object: an own entry keeps its place, a new one is
\* appended.
Set(o, key, v) ==
    IF HasOwn(o, key)
    THEN [i \in 1..Len(o) |-> IF o[i][1] = key THEN <<key, v>> ELSE o[i]]
    ELSE Append(o, <<key, v>>)

-----------------------------------------------------------------------------
(* Strings *)

UpperChars ==
    <<"A","B","C","D","E","F","G","H","I","J","K","L","M",
      "N","O","P","Q","R","S","T","U","V","W","X","Y","Z">>

LowerChars ==
    <<"a","b","c","d","e","f","g","h","i","j","k","l","m",
      "n","o","p","q","r","s","t","u","v","w","x","y","z">>

DigitChars == <<"0","1","2","3","4","5","6","7","8","9">>

Range(f) == {f[i] : i \in DOMAIN f}

\* Membership of a character in a character class of a regular expression; a
\* class is named by its source text and a one-character name is that
\* literal character.
InClass(c, cls) ==
    CASE cls = "\\d" -> c \in Range(DigitChars)
      [] cls = "\\s" -> c \in {" ", "\t", "\n", "\r"}
      [] cls = "[A-Za-z]" -> c \in Range(UpperChars) \cup Range(LowerChars)
      [] cls = "[a-z]" -> c \in Range(LowerChars)
      [] cls = "[A-Z]" -> c \in Range(UpperChars)
      [] cls = "[\\d:]" -> c \in Range(DigitChars) \cup {":"}
      [] cls = "[-.]" -> c \in {"-", "."}
      [] cls = "[\\s-]" -> c \in {" ", "\t", "\n", "\r", "-"}
      [] cls = "[a-zA-Z_]" ->
            c \in Range(UpperChars) \cup Range(LowerChars) \cup {"_"}
      [] cls = "[a-zA-Z0-9_]" ->
            c \in Range(UpperChars) \cup Range(LowerChars)
                  \cup Range(DigitChars) \cup {"_"}
      [] OTHER -> c = cls

DigitValue(c) == (CHOOSE i \in 1..10 : DigitChars[i] = c) - 1

LowerChar(c) ==
    IF InClass(c, "[A-Z]") THEN LowerChars[CHOOSE i \in 1..26 : UpperChars[i] = c] ELSE c

\* String.prototype.toLowerCase
ToLowerCase(s) == [i \in 1..Len(s) |-> LowerChar(s[i])]

SetMin(S) == CHOOSE x \in S : \A y \in S : x <= y
SetMax(S) == CHOOSE x \in S : \A y \in S : x >= y

\* String.prototype.trim
Trim(s) ==
    LET keep == {i \in 1..Len(s) : ~InClass(s[i], "\\s")}
    IN IF keep = {} THEN <<>> ELSE SubSeq(s, SetMin(keep), SetMax(keep))

\* String.prototype.startsWith
StartsWith(s, p) == Len(p) <= Len(s) /\ SubSeq(s, 1, Len(p)) = p

\* The index after the maximal run of characters of class cls that starts at
\* index i (i itself when s[i] is not in the class or i is past the end).
RunEnd(s, i, cls) ==
    LET stop == {j \in i..Len(s) : ~InClass(s[j], cls)}
    IN IF stop = {} THEN Len(s) + 1 ELSE SetMin(stop)

CharAt(t, i, c) == i >= 1 /\ i <= Len(t) /\ t[i] = c

RECURSIVE ParseDigits(_)
\* parseInt of a string of decimal digits (0 for the empty string).
ParseDigits(s) ==
    IF s = <<>> THEN 0
    ELSE 10 * ParseDigits(SubSeq(s, 1, Len(s) - 1)) + DigitValue(s[Len(s)])

RECURSIVE NatToString(_)
NatToString(n) ==
    IF n < 10 THEN <<DigitChars[n + 1]>>
    ELSE NatToString(n \div 10) \o <<DigitChars[(n % 10) + 1]>>

RECURSIVE Pow10(_)
Pow10(e) == IF e = 0 THEN 1 ELSE 10 * Pow10(e - 1)

-----------------------------------------------------------------------------
(* parseFloat and String(number) *)

\* parseFloat scans the longest prefix (after leading white space) that is a
\* decimal literal [+-](Infinity | digits[.digits] | .digits)[(e|E)[+-]digits].
\* The scan is a chain of steps over a record: t the text, i the next index,
\* sgn the sign, inf whether the literal is Infinity, mant the digits of the
\* mantissa read as an integer, nDigits their number, fracLen the number of
\* them after the point, exp the exponent.
PFStart(str) ==
    [t |-> str, i |-> RunEnd(str, 1, "\\s"), sgn |-> 1, inf |-> FALSE,
     mant |-> 0, nDigits |-> 0, fracLen |-> 0, exp |-> 0]

PFSign(st) ==
    IF CharAt(st.t, st.i, "-") THEN [st EXCEPT !.i = st.i + 1, !.sgn = -1]
    ELSE IF CharAt(st.t, st.i, "+") THEN [st EXCEPT !.i = st.i + 1]
    ELSE st

PFInfinity(st) ==
    [st EXCEPT !.inf = StartsWith(SubSeq(st.t, st.i, Len(st.t)),
                                  <<"I","n","f","i","n","i","t","y">>)]

PFInt(st) ==
    LET e == RunEnd(st.t, st.i, "\\d")
    IN [st EXCEPT !.i = e, !.nDigits = e - st.i,
                  !.mant = ParseDigits(SubSeq(st.t, st.i, e - 1))]

PFFrac(st) ==
    LET e == RunEnd(st.t, st.i + 1, "\\d")
        n == e - (st.i + 1)
    IN IF CharAt(st.t, st.i, ".")
       THEN [st EXCEPT !.i = e, !.nDigits = st.nDigits + n, !.fracLen = n,
                       !.mant = st.mant * Pow10(n)
                                + ParseDigits(SubSeq(st.t, st.i + 1, e - 1))]
       ELSE st

PFExp(st) ==
    LET neg == CharAt(st.t, st.i + 1, "-")
        j == IF neg \/ CharAt(st.t, st.i + 1, "+") THEN st.i + 2 ELSE st.i + 1
        e == RunEnd(st.t, j, "\\d")
        x == ParseDigits(SubSeq(st.t, j, e - 1))
    IN IF (CharAt(st.t, st.i, "e") \/ CharAt(st.t, st.i, "E")) /\ e > j
       THEN [st EXCEPT !.i = e, !.exp = IF neg THEN -x ELSE x]
       ELSE st

\* The number read, in 1/Scale units (decimals beyond that precision are
\* cut), or NaN when no digit was read.
PFResult(st) ==
    IF st.inf THEN [nan |-> FALSE, n |-> st.sgn * Infinity]
    ELSE IF st.nDigits = 0 THEN [nan |-> TRUE, n |-> 0]
    ELSE [nan |-> FALSE,
          n |-> st.sgn * (IF st.exp >= st.fracLen
                          THEN st.mant * Pow10(st.exp - st.fracLen) * Scale
                          ELSE (st.mant * Scale) \div Pow10(st.fracLen - st.exp))]

ParseFloat(str) ==
    PFResult(PFExp(PFFrac(PFInt(PFInfinity(PFSign(PFStart(str)))))))

\* String(n) for a number.
NumberToString(n) ==
    IF n = Infinity THEN <<"I","n","f","i","n","i","t","y">>
    ELSE IF n = -Infinity THEN <<"-","I","n","f","i","n","i","t","y">>
    ELSE (IF n < 0 THEN <<"-">> ELSE <<>>)
         \o NatToString(Abs(n) \div Scale)
         \o (IF Abs(n) % Scale = 0 THEN <<>>
             ELSE IF Abs(n) % 10 = 0
             THEN <<".", DigitChars[((Abs(n) % Scale) \div 10) + 1]>>
             ELSE <<".", DigitChars[((Abs(n) % Scale) \div 10) + 1],
                    DigitChars[(Abs(n) % 10) + 1]>>)

\* String(b) for a boolean.
BooleanToString(b) ==
    IF b THEN <<"t","r","u","e">> ELSE <<"f","a","l","s","e">>

-----------------------------------------------------------------------------
(* Regular expressions *)

\* The regular expressions of the code are sequences of character classes
\* with repetition counts, anchored at the start, in which no class overlaps
\* the next one; matching such an expression needs no backtracking.  An
\* element is [cls, min, max] (max = -1: unbounded).
Re(cls, min, max) == [cls |-> cls, min |-> min, max |-> max]
Lit(c) == Re(c, 1, 1)

\* How many characters from index i on the element takes.
RunLength(t, i, el) ==
    LET n == RunEnd(t, i, el.cls) - i
    IN IF el.max >= 0 /\ n > el.max THEN el.max ELSE n

RECURSIVE RegexEnds(_, _, _, _, _)
\* Matches elements k.. of re from index i; ends collects the index after
\* each element.
RegexEnds(t, i, re, k, ends) ==
    IF k > Len(re) THEN [ok |-> TRUE, last |-> i, ends |-> ends]
    ELSE LET n == RunLength(t, i, re[k])
         IN IF n < re[k].min THEN [ok |-> FALSE, last |-> i, ends |-> ends]
            ELSE RegexEnds(t, i + n, re, k + 1, Append(ends, i + n))

\* t.match(/^re/) and, with toEnd, t.match(/^re$/).
RegexMatch(t, re, toEnd) ==
    LET m == RegexEnds(t, 1, re, 1, <<>>)
    IN [m EXCEPT !.ok = m.ok /\ (toEnd => m.last = Len(t) + 1)]

\* The text element k of the match took.
Group(t, m, k) ==
    SubSeq(t, IF k = 1 THEN 1 ELSE m.ends[k - 1], m.ends[k] - 1)

-----------------------------------------------------------------------------
(* Coercion: results and constants *)

Warning(field, original, coerced) ==
    [field |-> field, originalValue |-> original, coercedValue |-> coerced]

\* CoercionResult; warning is the empty sequence or holds the one warning.
NotCoerced(value) == [value |-> value, coerced |-> FALSE, warning |-> <<>>]
Coerced(value, field, original) ==
    [value |-> value, coerced |-> TRUE,
     warning |-> <<Warning(field, original, value)>>]

NULL_STRINGS ==
    {<<"n","u","l","l">>, <<"n","o","n","e">>, <<"n","/","a">>, <<"n","a">>,
     <<"u","n","d","e","f","i","n","e","d">>, <<>>}

TRUE_STRINGS == {<<"t","r","u","e">>, <<"y","e","s">>, <<"1">>}

FALSE_STRINGS == {<<"f","a","l","s","e">>, <<"n","o">>, <<"0">>}

RECURSIVE ReplaceSeparatorRuns(_)
\* .replace(/[\s-]+/g, '_')
ReplaceSeparatorRuns(s) ==
    IF s = <<>> THEN <<>>
    ELSE IF InClass(s[1], "[\\s-]")
    THEN <<"_">> \o ReplaceSeparatorRuns(SubSeq(s, RunEnd(s, 1, "[\\s-]"), Len(s)))
    ELSE <<s[1]>> \o ReplaceSeparatorRuns(Tail(s))

normalizeEnumValue(value) == ReplaceSeparatorRuns(ToLowerCase(Trim(value)))

\* enumValues.find(e => normalizeEnumValue(e) === normalized): the first
\* such member, or undefined.
EnumFind(enumValues, normalized) ==
    LET hits == {i \in 1..Len(enumValues) :
                    normalizeEnumValue(enumValues[i]) = normalized}
    IN IF hits = {} THEN Undefined ELSE Str(enumValues[SetMin(hits)])

\* The truthiness test of `if (match)', `!def.type' and the like: undefined,
\* null, '', false and 0 are falsy.
Truthy(v) ==
    /\ v.k \notin {"undefined", "null"}
    /\ ~(v.k = "string" /\ v.s = <<>>)
    /\ ~(v.k = "boolean" /\ ~v.b)
    /\ ~(v.k = "number" /\ v.n = 0)

coerceEnumValue(value, enumValues, fieldName) ==
    IF value \in Range(enumValues) THEN NotCoerced(Str(value))
    ELSE LET match == EnumFind(enumValues, normalizeEnumValue(value))
         IN IF Truthy(match) THEN Coerced(match, fieldName, Str(value))
            ELSE NotCoerced(Str(value))

-----------------------------------------------------------------------------
(* Date coercion *)

\* The outcome of one DATE_PATTERNS entry on a string: whether the regex
\* matched and parse() returned an object, and the parsed components.
NoDate == [ok |-> FALSE, year |-> 0, month |-> 0, day |-> 0]
DateOf(y, m, d) == [ok |-> TRUE, year |-> y, month |-> m, day |-> d]

\* /^(\d{4})-(\d{1,2})-(\d{1,2})/ and the optional /(?:T[\d:]+)?/
IsoRe == <<Re("\\d", 4, 4), Lit("-"), Re("\\d", 1, 2), Lit("-"), Re("\\d", 1, 2)>>
IsoTimeRe == <<Lit("T"), Re("[\\d:]", 1, -1)>>
\* /^(\d{1,2})\/(\d{1,2})\/(\d{2,4})$/
UsRe == <<Re("\\d", 1, 2), Lit("/"), Re("\\d", 1, 2), Lit("/"), Re("\\d", 2, 4)>>
\* /^(\d{1,2})[-.](\d{1,2})[-.](\d{4})$/
EuropeanRe ==
    <<Re("\\d", 1, 2), Re("[-.]", 1, 1), Re("\\d", 1, 2), Re("[-.]", 1, 1),
      Re("\\d", 4, 4)>>
\* /^([A-Za-z]+)\s+(\d{1,2}),?\s+(\d{4})$/
MonthFirstRe ==
    <<Re("[A-Za-z]", 1, -1), Re("\\s", 1, -1), Re("\\d", 1, 2), Re(",", 0, 1),
      Re("\\s", 1, -1), Re("\\d", 4, 4)>>
\* /^(\d{1,2})\s+([A-Za-z]+)\s+(\d{4})$/
DayFirstRe ==
    <<Re("\\d", 1, 2), Re("\\s", 1, -1), Re("[A-Za-z]", 1, -1), Re("\\s", 1, -1),
      Re("\\d", 4, 4)>>

\* monthNames[name]: the month's number, 0 standing for a name the table
\* lacks (parse() then returns null, or a month that is no number).
monthNames(name) ==
    CASE name \in {<<"j","a","n","u","a","r","y">>, <<"j","a","n">>} -> 1
      [] name \in {<<"f","e","b","r","u","a","r","y">>, <<"f","e","b">>} -> 2
      [] name \in {<<"m","a","r","c","h">>, <<"m","a","r">>} -> 3
      [] name \in {<<"a","p","r","i","l">>, <<"a","p","r">>} -> 4
      [] name = <<"m","a","y">> -> 5
      [] name \in {<<"j","u","n","e">>, <<"j","u","n">>} -> 6
      [] name \in {<<"j","u","l","y">>, <<"j","u","l">>} -> 7
      [] name \in {<<"a","u","g","u","s","t">>, <<"a","u","g">>} -> 8
      [] name \in {<<"s","e","p","t","e","m","b","e","r">>, <<"s","e","p">>,
                   <<"s","e","p","t">>} -> 9
      [] name \in {<<"o","c","t","o","b","e","r">>, <<"o","c","t">>} -> 10
      [] name \in {<<"n","o","v","e","m","b","e","r">>, <<"n","o","v">>} -> 11
      [] name \in {<<"d","e","c","e","m","b","e","r">>, <<"d","e","c">>} -> 12
      [] OTHER -> 0

\* The two-digit-year pivot of the US format.
PivotYear(y) == IF y < 100 THEN (IF y < 50 THEN y + 2000 ELSE y + 1900) ELSE y

\* parse() of a match whose elements yk, mk and dk hold the year, the month
\* (a number) and the day.
NumericDate(t, m, yk, mk, dk) ==
    IF m.ok
    THEN DateOf(ParseDigits(Group(t, m, yk)), ParseDigits(Group(t, m, mk)),
                ParseDigits(Group(t, m, dk)))
    ELSE NoDate

\* parse() of a match whose element mk holds the month's name.
WrittenDate(t, m, yk, mk, dk) ==
    IF m.ok /\ monthNames(ToLowerCase(Group(t, m, mk))) # 0
    THEN DateOf(ParseDigits(Group(t, m, yk)),
                monthNames(ToLowerCase(Group(t, m, mk))),
                ParseDigits(Group(t, m, dk)))
    ELSE NoDate

MatchIso(t) ==
    IF RegexMatch(t, IsoRe, TRUE).ok
    THEN NumericDate(t, RegexMatch(t, IsoRe, TRUE), 1, 3, 5)
    ELSE NumericDate(t, RegexMatch(t, IsoRe \o IsoTimeRe, TRUE), 1, 3, 5)

MatchUs(t) ==
    [NumericDate(t, RegexMatch(t, UsRe, TRUE), 5, 1, 3) EXCEPT
        !.year = PivotYear(@)]

MatchEuropean(t) == NumericDate(t, RegexMatch(t, EuropeanRe, TRUE), 5, 3, 1)

MatchWrittenMonthFirst(t) ==
    WrittenDate(t, RegexMatch(t, MonthFirstRe, TRUE), 6, 1, 3)

MatchWrittenDayFirst(t) ==
    WrittenDate(t, RegexMatch(t, DayFirstRe, TRUE), 5, 3, 1)

\* DATE_PATTERNS, in order.
DATE_PATTERNS(t) ==
    <<MatchIso(t), MatchUs(t), MatchEuropean(t), MatchWrittenMonthFirst(t),
      MatchWrittenDayFirst(t)>>

\* String(n).padStart(2, '0')
PadStart2(n) == IF n < 10 THEN <<"0">> \o NatToString(n) ELSE NatToString(n)

IsoDate(d) ==
    NatToString(d.year) \o <<"-">> \o PadStart2(d.month) \o <<"-">> \o PadStart2(d.day)

DateInRange(d) ==
    /\ d.month >= 1 /\ d.month <= 12
    /\ d.day >= 1 /\ d.day <= 31
    /\ d.year >= 1900 /\ d.year <= 2100

\* /^\d{4}-\d{2}-\d{2}$/
IsoDateOnlyRe ==
    <<Re("\\d", 4, 4), Lit("-"), Re("\\d", 2, 2), Lit("-"), Re("\\d", 2, 2)>>

\* The first entry of the tried patterns that matched, parsed and is in
\* range, as the ISO date it stands for; <<>> when there is none.
FirstIsoDate(tried) ==
    LET hits == {i \in 1..Len(tried) : tried[i].ok /\ DateInRange(tried[i])}
    IN IF hits = {} THEN <<>> ELSE IsoDate(tried[SetMin(hits)])

\* The body of coerceDateValue once value is trimmed and the patterns tried.
DateResult(value, fieldName, trimmed, isoDate) ==
    IF RegexMatch(trimmed, IsoDateOnlyRe, TRUE).ok THEN NotCoerced(Str(trimmed))
    ELSE IF isoDate = <<>> THEN NotCoerced(Str(value))
    ELSE IF isoDate # trimmed /\ ~StartsWith(trimmed, isoDate)
    THEN Coerced(Str(isoDate), fieldName, Str(value))
    ELSE NotCoerced(Str(isoDate))

coerceDateValue(value, fieldName) ==
    DateResult(value, fieldName, Trim(value),
               FirstIsoDate(DATE_PATTERNS(Trim(value))))

-----------------------------------------------------------------------------
(* Scalar coercion *)

coerceToNumber(value, fieldName) ==
    IF TypeOf(value) = "number" THEN NotCoerced(value)
    ELSE IF TypeOf(value) = "string"
    THEN LET trimmed == Trim(value.s)
             parsed == ParseFloat(trimmed)
         IN IF ToLowerCase(trimmed) \in NULL_STRINGS THEN NotCoerced(value)
            ELSE IF ~parsed.nan THEN Coerced(Num(parsed.n), fieldName, value)
            ELSE NotCoerced(value)
    ELSE IF TypeOf(value) = "boolean"
    THEN Coerced(Num(IF value.b THEN Scale ELSE 0), fieldName, value)
    ELSE NotCoerced(value)

\* TruncateResult without the test that keeps an integer as it is.
TruncateResultAlways(numberResult, value, fieldName) ==
    IF TypeOf(numberResult.value) = "number"
    THEN Coerced(Num(MathTrunc(numberResult.value.n)), fieldName, value)
    ELSE NotCoerced(value)

\* The body of coerceToInteger once coerceToNumber has returned numberResult.
TruncateResult(numberResult, value, fieldName) ==
    IF TypeOf(numberResult.value) = "number"
    THEN IF NumberIsInteger(numberResult.value.n) THEN numberResult
         ELSE Coerced(Num(MathTrunc(numberResult.value.n)), fieldName, value)
    ELSE NotCoerced(value)

coerceToInteger(value, fieldName) ==
    TruncateResult(coerceToNumber(value, fieldName), value, fieldName)

coerceToBoolean(value, fieldName) ==
    LET normalized == ToLowerCase(Trim(value.s))
    IN IF TypeOf(value) = "boolean" THEN NotCoerced(value)
       ELSE IF TypeOf(value) = "string" /\ normalized \in TRUE_STRINGS
       THEN Coerced(Bool(TRUE), fieldName, value)
       ELSE IF TypeOf(value) = "string" /\ normalized \in FALSE_STRINGS
       THEN Coerced(Bool(FALSE), fieldName, value)
       ELSE IF TypeOf(value) = "number"
       THEN Coerced(Bool(value.n # 0), fieldName, value)
       ELSE NotCoerced(value)

\* coerceToString converting without reporting it.
coerceToStringSilent(value, fieldName) ==
    IF TypeOf(value) = "number" THEN NotCoerced(Str(NumberToString(value.n)))
    ELSE IF TypeOf(value) = "boolean"
    THEN NotCoerced(Str(BooleanToString(value.b)))
    ELSE NotCoerced(value)

coerceToString(value, fieldName) ==
    IF TypeOf(value) = "string" THEN NotCoerced(value)
    ELSE IF TypeOf(value) = "number"
    THEN Coerced(Str(NumberToString(value.n)), fieldName, value)
    ELSE IF TypeOf(value) = "boolean"
    THEN Coerced(Str(BooleanToString(value.b)), fieldName, value)
    ELSE NotCoerced(value)

coerceValue(value, targetType, fieldName, isOptional) ==
    IF IsNullish(value) THEN NotCoerced(value)
    ELSE IF /\ TypeOf(value) = "string"
            /\ ToLowerCase(Trim(value.s)) \in NULL_STRINGS
            /\ isOptional
    THEN Coerced(Null, fieldName, value)
    ELSE CASE targetType = "number" -> coerceToNumber(value, fieldName)
           [] targetType = "integer" -> coerceToInteger(value, fieldName)
           [] targetType = "boolean" -> coerceToBoolean(value, fieldName)
           [] targetType = "string" -> coerceToString(value, fieldName)
           [] OTHER -> NotCoerced(value)

-----------------------------------------------------------------------------
(* Field definitions *)

\* items of a field that has none
NoItems == [type |-> "none", hasProperties |-> FALSE, properties |-> <<>>]

\* A FieldDefinition.  Every member of the TypeScript interface is a record
\* field; an absent optional member has its has* flag FALSE (format: "none",
\* pattern: "", which `if (fieldDef.pattern)' treats like an absent one).
\* properties is the sequence of <<name, definition>> in declaration order.
Field(type, optional) ==
    [type |-> type, optional |-> optional, format |-> "none",
     hasEnum |-> FALSE, enum |-> <<>>, pattern |-> "",
     hasMin |-> FALSE, min |-> 0, hasMax |-> FALSE, max |-> 0,
     items |-> NoItems, hasProperties |-> FALSE, properties |-> <<>>]

WithEnum(def, enum) == [def EXCEPT !.hasEnum = TRUE, !.enum = enum]
WithFormat(def, format) == [def EXCEPT !.format = format]
WithPattern(def, pattern) == [def EXCEPT !.pattern = pattern]
WithMin(def, min) == [def EXCEPT !.hasMin = TRUE, !.min = min]
WithMax(def, max) == [def EXCEPT !.hasMax = TRUE, !.max = max]
ObjectField(optional, properties) ==
    [Field("object", optional) EXCEPT !.hasProperties = TRUE,
                                      !.properties = properties]
ArrayField(optional, properties) ==
    [Field("array", optional) EXCEPT
        !.items = [type |-> "object", hasProperties |-> TRUE,
                   properties |-> properties]]

-----------------------------------------------------------------------------
(* coerceExtractedData *)

\* The own enumerable entries `{ ...v }' copies.
OwnEntries(v) ==
    CASE v.k = "object" -> v.o
      [] v.k = "array" -> [i \in 1..Len(v.a) |-> <<ToString(i - 1), v.a[i]>>]
      [] OTHER -> <<>>

\* `name in v' throws a TypeError unless v is an object.
InThrows(v) == v.k \notin {"object", "array", "function"}

\* obj[key] and `key in obj' for any object value.
GetOf(v, key) == Get(OwnEntries(v), key)
HasPropertyOf(v, key) == HasProperty(OwnEntries(v), key)

\* PrefixWarnings leaving the warnings as the nested call returned them.
PrefixWarningsUnchanged(warnings, prefix) == warnings

\* w.field = `${prefix}.${w.field}' for every warning
PrefixWarnings(warnings, prefix) ==
    [i \in 1..Len(warnings) |->
        [warnings[i] EXCEPT !.field = prefix \o "." \o warnings[i].field]]

RECURSIVE coerceExtractedData(_, _)
RECURSIVE coerceArrayItems(_, _, _)
RECURSIVE CoerceFields(_, _, _, _)
RECURSIVE CoerceItems(_, _, _, _, _)

\* The accumulator of the loop of coerceExtractedData: coercedData (as
\* entries), the warnings so far and whether an exception was thrown.
\* coercedData[fieldName] = result.value; warnings.push(result.warning)
PutResult(acc, fieldName, result) ==
    [data |-> Set(acc.data, fieldName, result.value),
     warnings |-> acc.warnings \o result.warning,
     threw |-> FALSE]

\* coercedData[fieldName] = coercedArray; warnings.push(...arrayWarnings)
PutArray(acc, fieldName, r) ==
    [data |-> Set(acc.data, fieldName, Arr(r.array)),
     warnings |-> acc.warnings \o r.warnings,
     threw |-> r.threw]

\* coercedData[fieldName] = nestedResult.data, the warnings prefixed
PutObject(acc, fieldName, r) ==
    [data |-> Set(acc.data, fieldName, Obj(r.data)),
     warnings |-> acc.warnings \o PrefixWarnings(r.warnings, fieldName),
     threw |-> r.threw]

\* The scalar branches of the loop, in order: enum, date format, coerceValue.
CoerceScalar(value, fieldDef, fieldName) ==
    IF fieldDef.type = "string" /\ TypeOf(value) = "string" /\ fieldDef.hasEnum
    THEN coerceEnumValue(value.s, fieldDef.enum, fieldName)
    ELSE IF fieldDef.type = "string" /\ TypeOf(value) = "string"
            /\ fieldDef.format \in {"date", "date-time"}
    THEN coerceDateValue(value.s, fieldName)
    ELSE coerceValue(value, fieldDef.type, fieldName, fieldDef.optional)

\* One iteration of the loop of coerceExtractedData, for a field the data
\* has (`fieldName in data') with value = data[fieldName].
CoerceField(fieldName, fieldDef, value, acc) ==
    IF IsNullish(value)
    THEN [acc EXCEPT !.data = Set(acc.data, fieldName, value)]
    ELSE IF fieldDef.type = "array" /\ value.k = "array"
            /\ fieldDef.items.type # "none"
    THEN PutArray(acc, fieldName,
                  coerceArrayItems(value.a, fieldDef.items, fieldName))
    ELSE IF fieldDef.type = "object" /\ TypeOf(value) = "object"
            /\ value.k # "array" /\ fieldDef.hasProperties
    THEN PutObject(acc, fieldName,
                   coerceExtractedData(value, fieldDef.properties))
    ELSE PutResult(acc, fieldName, CoerceScalar(value, fieldDef, fieldName))

\* The loop of coerceExtractedData from field i.
CoerceFields(dataValue, fields, i, acc) ==
    IF i > Len(fields) \/ acc.threw THEN acc
    ELSE CoerceFields(dataValue, fields, i + 1,
            IF InThrows(dataValue) THEN [acc EXCEPT !.threw = TRUE]
            ELSE IF ~HasPropertyOf(dataValue, fields[i][1]) THEN acc
            ELSE CoerceField(fields[i][1], fields[i][2],
                             GetOf(dataValue, fields[i][1]), acc))

\* data is a value (a plain object for every caller in the code); the result
\* holds the entries of the coerced copy.
coerceExtractedData(dataValue, fields) ==
    CoerceFields(dataValue, fields, 1,
                 [data |-> OwnEntries(dataValue), warnings |-> <<>>,
                  threw |-> FALSE])

\* The guard under which coerceArrayItems recurses into an item.
IsObjectItem(item, itemDef) ==
    /\ itemDef.type = "object"
    /\ TypeOf(item) = "object"
    /\ item.k # "null"
    /\ item.k # "array"
    /\ itemDef.hasProperties

\* coercedArray.push(nestedResult.data), the warnings prefixed by itemPath
PutItem(acc, itemPath, r) ==
    [array |-> Append(acc.array, Obj(r.data)),
     warnings |-> acc.warnings \o PrefixWarnings(r.warnings, itemPath),
     threw |-> r.threw]

\* The loop of coerceArrayItems from item i (1-based here, i - 1 in the path).
CoerceItems(array, itemDef, fieldName, i, acc) ==
    IF i > Len(array) \/ acc.threw THEN acc
    ELSE CoerceItems(array, itemDef, fieldName, i + 1,
            IF IsObjectItem(array[i], itemDef)
            THEN PutItem(acc, fieldName \o "[" \o ToString(i - 1) \o "]",
                         coerceExtractedData(array[i], itemDef.properties))
            ELSE [acc EXCEPT !.array = Append(acc.array, array[i])])

coerceArrayItems(array, itemDef, fieldName) ==
    CoerceItems(array, itemDef, fieldName, 1,
                [array |-> <<>>, warnings |-> <<>>, threw |-> FALSE])

-----------------------------------------------------------------------------
(* Validation *)

FIELD_MISSING == "FIELD_MISSING"
FIELD_INVALID == "FIELD_INVALID"
TYPE_MISMATCH == "TYPE_MISMATCH"

\* A ValidationError: keys is the set of members the object literal sets.
MissingError(field) ==
    [field |-> field, code |-> FIELD_MISSING, value |-> Undefined,
     keys |-> {"field", "message", "code"}]
ValueError(field, code, value) ==
    [field |-> field, code |-> code, value |-> value,
     keys |-> {"field", "message", "code", "value"}]

\* The compiled form of the patterns the schemas of the model use; a pattern
\* is named by its source text.  toEnd tells whether it ends with $.
PatternRe(pattern) ==
    CASE pattern = "^[a-z]+$" ->
            [re |-> <<Re("[a-z]", 1, -1)>>, toEnd |-> TRUE]
      [] pattern = "^[A-Z]{3}-[0-9]{3}$" ->
            [re |-> <<Re("[A-Z]", 3, 3), Lit("-"), Re("\\d", 3, 3)>>,
             toEnd |-> TRUE]
      [] pattern = "^\\d{4}-\\d{2}-\\d{2}T" ->
            [re |-> IsoDateOnlyRe \o <<Lit("T")>>, toEnd |-> FALSE]

\* new RegExp(pattern).test(value)
RegExpTest(pattern, value) ==
    RegexMatch(value, PatternRe(pattern).re, PatternRe(pattern).toEnd).ok

RECURSIVE validateField(_, _, _)
RECURSIVE validateArrayItem(_, _, _)
RECURSIVE validateObjectProperties(_, _, _)
RECURSIVE ValidateProperties(_, _, _, _)
RECURSIVE ValidateItems(_, _, _, _)

\* RangeErrors with the check against max left out.
RangeErrorsMinOnly(fieldName, value, fieldDef) ==
    IF fieldDef.hasMin /\ value.n < fieldDef.min
    THEN <<ValueError(fieldName, FIELD_INVALID, value)>> ELSE <<>>

\* RangeErrors reporting a value out of range under the code TYPE_MISMATCH.
RangeErrorsAsTypeMismatch(fieldName, value, fieldDef) ==
    IF (fieldDef.hasMin /\ value.n < fieldDef.min)
       \/ (fieldDef.hasMax /\ value.n > fieldDef.max)
    THEN <<ValueError(fieldName, TYPE_MISMATCH, value)>> ELSE <<>>

\* The range checks shared by the number and integer cases.
RangeErrors(fieldName, value, fieldDef) ==
    (IF fieldDef.hasMin /\ value.n < fieldDef.min
     THEN <<ValueError(fieldName, FIELD_INVALID, value)>> ELSE <<>>)
    \o
    (IF fieldDef.hasMax /\ value.n > fieldDef.max
     THEN <<ValueError(fieldName, FIELD_INVALID, value)>> ELSE <<>>)

\* The string case of validateField.
StringErrors(fieldName, value, fieldDef) ==
    IF TypeOf(value) # "string"
    THEN <<ValueError(fieldName, TYPE_MISMATCH, value)>>
    ELSE (IF fieldDef.hasEnum /\ value.s \notin Range(fieldDef.enum)
          THEN <<ValueError(fieldName, FIELD_INVALID, value)>> ELSE <<>>)
         \o
         (IF fieldDef.pattern # "" /\ ~RegExpTest(fieldDef.pattern, value.s)
          THEN <<ValueError(fieldName, FIELD_INVALID, value)>> ELSE <<>>)

\* The loop over the items of an array field, from item i.
ValidateItems(fieldName, array, itemDef, i) ==
    IF i > Len(array) THEN <<>>
    ELSE validateArrayItem(fieldName \o "[" \o ToString(i - 1) \o "]",
                           array[i], itemDef)
         \o ValidateItems(fieldName, array, itemDef, i + 1)

validateField(fieldName, value, fieldDef) ==
    CASE fieldDef.type = "string" -> StringErrors(fieldName, value, fieldDef)
      [] fieldDef.type = "number" ->
            IF TypeOf(value) # "number"
            THEN <<ValueError(fieldName, TYPE_MISMATCH, value)>>
            ELSE RangeErrors(fieldName, value, fieldDef)
      [] fieldDef.type = "integer" ->
            IF TypeOf(value) # "number" \/ ~NumberIsInteger(value.n)
            THEN <<ValueError(fieldName, TYPE_MISMATCH, value)>>
            ELSE RangeErrors(fieldName, value, fieldDef)
      [] fieldDef.type = "boolean" ->
            IF TypeOf(value) # "boolean"
            THEN <<ValueError(fieldName, TYPE_MISMATCH, value)>>
            ELSE <<>>
      [] fieldDef.type = "array" ->
            IF value.k # "array"
            THEN <<ValueError(fieldName, TYPE_MISMATCH, value)>>
            ELSE IF fieldDef.items.type # "none"
            THEN ValidateItems(fieldName, value.a, fieldDef.items, 1)
            ELSE <<>>
      [] fieldDef.type = "object" ->
            IF TypeOf(value) # "object" \/ value.k = "null" \/ value.k = "array"
            THEN <<ValueError(fieldName, TYPE_MISMATCH, value)>>
            ELSE IF fieldDef.hasProperties
            THEN validateObjectProperties(fieldName, value, fieldDef.properties)
            ELSE <<>>
      [] OTHER -> <<>>

validateArrayItem(itemPath, item, itemDef) ==
    IF itemDef.type # "object" THEN <<>>
    ELSE IF TypeOf(item) # "object" \/ item.k = "null" \/ item.k = "array"
    THEN <<ValueError(itemPath, TYPE_MISMATCH, item)>>
    ELSE IF itemDef.hasProperties
    THEN validateObjectProperties(itemPath, item, itemDef.properties)
    ELSE <<>>

\* One iteration of the loop shared by validateExtractedData (path = the
\* field's name) and validateObjectProperties (path = parent.name).
CheckField(path, value, fieldDef) ==
    IF IsNullish(value)
    THEN IF ~fieldDef.optional THEN <<MissingError(path)>> ELSE <<>>
    ELSE validateField(path, value, fieldDef)

ValidateProperties(parentPath, obj, properties, i) ==
    IF i > Len(properties) THEN <<>>
    ELSE CheckField(parentPath \o "." \o properties[i][1],
                    GetOf(obj, properties[i][1]), properties[i][2])
         \o ValidateProperties(parentPath, obj, properties, i + 1)

validateObjectProperties(parentPath, obj, properties) ==
    ValidateProperties(parentPath, obj, properties, 1)

RECURSIVE ValidateTopLevelFirstOnly(_, _, _)
\* ValidateTopLevel returning at the first field that has errors.
ValidateTopLevelFirstOnly(coercedData, fields, i) ==
    IF i > Len(fields) THEN <<>>
    ELSE IF CheckField(fields[i][1], Get(coercedData, fields[i][1]),
                       fields[i][2]) # <<>>
    THEN CheckField(fields[i][1], Get(coercedData, fields[i][1]), fields[i][2])
    ELSE ValidateTopLevelFirstOnly(coercedData, fields, i + 1)

RECURSIVE ValidateTopLevel(_, _, _)
\* The loop of validateExtractedData over schema.fields, from field i.
ValidateTopLevel(coercedData, fields, i) ==
    IF i > Len(fields) THEN <<>>
    ELSE CheckField(fields[i][1], Get(coercedData, fields[i][1]), fields[i][2])
         \o ValidateTopLevel(coercedData, fields, i + 1)

\* The ValidationResult returned; warningsDefined renders
\* `warnings.length > 0 ? warnings : undefined'.  A call that threw returns
\* nothing: threw is set and the other members mean nothing.
ValidationResult(c, errors) ==
    [valid |-> Len(errors) = 0,
     errors |-> errors,
     warningsDefined |-> Len(c.warnings) > 0,
     warnings |-> c.warnings,
     coercedData |-> c.data,
     threw |-> c.threw]

\* The body of validateExtractedData once coercion has returned c.
ValidateCoerced(c, fields) ==
    ValidationResult(c, IF c.threw THEN <<>>
                        ELSE ValidateTopLevel(c.data, fields, 1))

validateExtractedData(dataValue, schemaValue) ==
    ValidateCoerced(coerceExtractedData(dataValue, schemaValue.fields),
                    schemaValue.fields)

-----------------------------------------------------------------------------
(* validateSchema.  A schema document is a value; the names of its fields   *)
(* and nested properties are sequences of characters, and so are the paths  *)
(* the errors carry.                                                        *)

ErrorCodes ==
    [INVALID_JSON |-> "INVALID_JSON", MISSING_FIELDS |-> "MISSING_FIELDS",
     INVALID_FIELD_TYPE |-> "INVALID_FIELD_TYPE",
     INVALID_FIELD_NAME |-> "INVALID_FIELD_NAME",
     INVALID_ENUM_VALUE |-> "INVALID_ENUM_VALUE",
     INVALID_CONSTRAINT |-> "INVALID_CONSTRAINT",
     EMPTY_ENUM_VALUES |-> "EMPTY_ENUM_VALUES",
     INVALID_PATTERN |-> "INVALID_PATTERN",
     CONSTRAINT_MISMATCH |-> "CONSTRAINT_MISMATCH",
     DUPLICATE_ENUM_VALUE |-> "DUPLICATE_ENUM_VALUE",
     INVALID_CONFIDENCE_CONFIG |-> "INVALID_CONFIDENCE_CONFIG"]

\* The outcome of a validating function: it returned, or it threw a
\* SchemaValidationError with this code and field (undefined when the
\* constructor got no field).
Returned == [threw |-> FALSE, code |-> "", field |-> Undefined]
SchemaValidationError(code, field) ==
    [threw |-> TRUE, code |-> code, field |-> field]

VALID_FIELD_TYPES ==
    {<<"s","t","r","i","n","g">>, <<"n","u","m","b","e","r">>,
     <<"i","n","t","e","g","e","r">>, <<"b","o","o","l","e","a","n">>,
     <<"a","r","r","a","y">>, <<"o","b","j","e","c","t">>}

\* A key that is an array index: Object.entries lists such keys first, in
\* ascending order, before the other keys in the order they were added.
IsArrayIndex(key) ==
    /\ key # <<>>
    /\ \A i \in 1..Len(key) : InClass(key[i], "\\d")
    /\ (Len(key) = 1 \/ key[1] # "0")

RECURSIVE IndexEntries(_, _)
\* The entries of o whose key is an array index above `last', ascending.
IndexEntries(o, last) ==
    LET later == {i \in 1..Len(o) :
                     IsArrayIndex(o[i][1]) /\ ParseDigits(o[i][1]) > last}
        first == CHOOSE i \in later :
                     \A j \in later :
                         ParseDigits(o[i][1]) <= ParseDigits(o[j][1])
    IN IF later = {} THEN <<>>
       ELSE <<o[first]>> \o IndexEntries(o, ParseDigits(o[first][1]))

\* Object.entries(v) for an object or an array.
ObjectEntries(v) ==
    IF v.k = "array"
    THEN [i \in 1..Len(v.a) |-> <<NatToString(i - 1), v.a[i]>>]
    ELSE IndexEntries(v.o, -1)
         \o SelectSeq(v.o, LAMBDA e : ~IsArrayIndex(e[1]))

\* new RegExp(pattern) throws a SyntaxError: here, for a group or a character
\* class left open, a closing parenthesis without its opening one, or a
\* quantifier with nothing to repeat at the start.
RegExpThrows(pattern) ==
    LET count(c) == Cardinality({i \in 1..Len(pattern) : pattern[i] = c})
    IN \/ count("(") # count(")")
       \/ count("[") # count("]")
       \/ (pattern # <<>> /\ pattern[1] \in {"*", "+", "?"})

validateFieldName(fieldName) ==
    IF fieldName = <<>> \/ Trim(fieldName) = <<>>
    THEN SchemaValidationError(ErrorCodes.INVALID_FIELD_NAME, Undefined)
    ELSE IF ~RegexMatch(fieldName,
                        <<Re("[a-zA-Z_]", 1, 1), Re("[a-zA-Z0-9_]", 0, -1)>>,
                        TRUE).ok
    THEN SchemaValidationError(ErrorCodes.INVALID_FIELD_NAME, Str(fieldName))
    ELSE Returned

validateEnumConstraint(fieldName, def) ==
    LET enum == GetOf(def, "enum")
    IN IF enum.k # "array"
       THEN SchemaValidationError(ErrorCodes.INVALID_ENUM_VALUE, Str(fieldName))
       ELSE IF Len(enum.a) = 0
       THEN SchemaValidationError(ErrorCodes.EMPTY_ENUM_VALUES, Str(fieldName))
       ELSE IF \E i \in 1..Len(enum.a) : TypeOf(enum.a[i]) # "string"
       THEN SchemaValidationError(ErrorCodes.INVALID_ENUM_VALUE, Str(fieldName))
       ELSE IF Cardinality(Range(enum.a)) # Len(enum.a)
       THEN SchemaValidationError(ErrorCodes.DUPLICATE_ENUM_VALUE, Str(fieldName))
       ELSE Returned

validateNumberField(fieldName, def) ==
    LET min == GetOf(def, "min")
        max == GetOf(def, "max")
    IN IF min.k # "undefined" /\ TypeOf(min) # "number"
       THEN SchemaValidationError(ErrorCodes.INVALID_CONSTRAINT, Str(fieldName))
       ELSE IF max.k # "undefined" /\ TypeOf(max) # "number"
       THEN SchemaValidationError(ErrorCodes.INVALID_CONSTRAINT, Str(fieldName))
       ELSE IF min.k # "undefined" /\ max.k # "undefined" /\ min.n > max.n
       THEN SchemaValidationError(ErrorCodes.CONSTRAINT_MISMATCH, Str(fieldName))
       ELSE IF GetOf(def, "enum").k # "undefined"
       THEN SchemaValidationError(ErrorCodes.INVALID_CONSTRAINT, Str(fieldName))
       ELSE Returned

validateStringField(fieldName, def) ==
    LET pattern == GetOf(def, "pattern")
    IN IF pattern.k # "undefined" /\ TypeOf(pattern) # "string"
       THEN SchemaValidationError(ErrorCodes.INVALID_CONSTRAINT, Str(fieldName))
       ELSE IF pattern.k # "undefined" /\ RegExpThrows(pattern.s)
       THEN SchemaValidationError(ErrorCodes.INVALID_PATTERN, Str(fieldName))
       ELSE IF GetOf(def, "min").k # "undefined"
               \/ GetOf(def, "max").k # "undefined"
       THEN SchemaValidationError(ErrorCodes.INVALID_CONSTRAINT, Str(fieldName))
       ELSE Returned

RECURSIVE validateFieldDefinition(_, _)
RECURSIVE ValidateEntries(_, _, _)

\* The loop `for (const [name, def] of Object.entries(...))' shared by the
\* top-level fields and the nested properties, from entry i on: the name is
\* checked bare, the definition under prefix + name; the first throw ends it.
ValidateEntries(entries, i, prefix) ==
    IF i > Len(entries) THEN Returned
    ELSE IF validateFieldName(entries[i][1]).threw
    THEN validateFieldName(entries[i][1])
    ELSE IF validateFieldDefinition(prefix \o entries[i][1],
                                    entries[i][2]).threw
    THEN validateFieldDefinition(prefix \o entries[i][1], entries[i][2])
    ELSE ValidateEntries(entries, i + 1, prefix)

\* The checks on a `properties' value that array items and object fields
\* share: present, an object, not empty.
InvalidProperties(properties) ==
    \/ ~Truthy(properties)
    \/ TypeOf(properties) # "object"
    \/ ObjectEntries(properties) = <<>>

validateArrayField(fieldName, def) ==
    LET items == GetOf(def, "items")
    IN IF ~Truthy(items) \/ TypeOf(items) # "object"
       THEN SchemaValidationError(ErrorCodes.INVALID_CONSTRAINT, Str(fieldName))
       ELSE IF GetOf(items, "type") # Str(<<"o","b","j","e","c","t">>)
       THEN SchemaValidationError(ErrorCodes.INVALID_CONSTRAINT, Str(fieldName))
       ELSE IF InvalidProperties(GetOf(items, "properties"))
       THEN SchemaValidationError(ErrorCodes.INVALID_CONSTRAINT, Str(fieldName))
       ELSE ValidateEntries(ObjectEntries(GetOf(items, "properties")), 1,
                            fieldName \o <<".","i","t","e","m","s",".">>)

validateObjectField(fieldName, def) ==
    IF InvalidProperties(GetOf(def, "properties"))
    THEN SchemaValidationError(ErrorCodes.INVALID_CONSTRAINT, Str(fieldName))
    ELSE ValidateEntries(ObjectEntries(GetOf(def, "properties")), 1,
                         fieldName \o <<".">>)

\* The type-specific part of validateFieldDefinition.
ValidateByType(fieldName, def, fieldType) ==
    CASE fieldType \in {<<"n","u","m","b","e","r">>,
                        <<"i","n","t","e","g","e","r">>} ->
            validateNumberField(fieldName, def)
      [] fieldType = <<"s","t","r","i","n","g">> ->
            IF validateStringField(fieldName, def).threw
            THEN validateStringField(fieldName, def)
            ELSE IF Truthy(GetOf(def, "enum"))
            THEN validateEnumConstraint(fieldName, def)
            ELSE Returned
      [] fieldType = <<"a","r","r","a","y">> ->
            validateArrayField(fieldName, def)
      [] fieldType = <<"o","b","j","e","c","t">> ->
            validateObjectField(fieldName, def)
      [] OTHER -> Returned

validateFieldDefinition(fieldName, fieldDef) ==
    IF ~Truthy(fieldDef) \/ TypeOf(fieldDef) # "object"
    THEN SchemaValidationError(ErrorCodes.INVALID_FIELD_TYPE, Str(fieldName))
    ELSE IF ~Truthy(GetOf(fieldDef, "type"))
    THEN SchemaValidationError(ErrorCodes.INVALID_FIELD_TYPE, Str(fieldName))
    ELSE IF TypeOf(GetOf(fieldDef, "type")) # "string"
    THEN SchemaValidationError(ErrorCodes.INVALID_FIELD_TYPE, Str(fieldName))
    ELSE IF GetOf(fieldDef, "type").s \notin VALID_FIELD_TYPES
    THEN SchemaValidationError(ErrorCodes.INVALID_FIELD_TYPE, Str(fieldName))
    ELSE IF GetOf(fieldDef, "optional").k # "undefined"
            /\ TypeOf(GetOf(fieldDef, "optional")) # "boolean"
    THEN SchemaValidationError(ErrorCodes.INVALID_CONSTRAINT, Str(fieldName))
    ELSE IF GetOf(fieldDef, "description").k # "undefined"
            /\ TypeOf(GetOf(fieldDef, "description")) # "string"
    THEN SchemaValidationError(ErrorCodes.INVALID_CONSTRAINT, Str(fieldName))
    ELSE ValidateByType(fieldName, fieldDef, GetOf(fieldDef, "type").s)

validateMetadata(metadata) ==
    IF TypeOf(metadata) # "object" \/ metadata.k = "null"
    THEN SchemaValidationError(ErrorCodes.INVALID_JSON, Undefined)
    ELSE IF \E key \in {"name", "version", "description"} :
                /\ GetOf(metadata, key).k # "undefined"
                /\ TypeOf(GetOf(metadata, key)) # "string"
    THEN SchemaValidationError(ErrorCodes.INVALID_JSON, Undefined)
    ELSE Returned

validateConfidenceConfig(confidence) ==
    LET threshold == GetOf(confidence, "threshold")
        failOnLowConfidence == GetOf(confidence, "failOnLowConfidence")
    IN IF \/ TypeOf(confidence) # "object" \/ confidence.k = "null"
          \/ TypeOf(threshold) # "number"
          \/ threshold.n < 0 \/ threshold.n > 100 * Scale
          \/ TypeOf(failOnLowConfidence) # "boolean"
       THEN SchemaValidationError(ErrorCodes.INVALID_CONFIDENCE_CONFIG, Undefined)
       ELSE Returned

validateSchema(doc) ==
    IF ~Truthy(doc) \/ TypeOf(doc) # "object"
    THEN SchemaValidationError(ErrorCodes.INVALID_JSON, Undefined)
    ELSE IF ~Truthy(GetOf(doc, "fields"))
    THEN SchemaValidationError(ErrorCodes.MISSING_FIELDS, Undefined)
    ELSE IF TypeOf(GetOf(doc, "fields")) # "object"
    THEN SchemaValidationError(ErrorCodes.MISSING_FIELDS, Undefined)
    ELSE IF ObjectEntries(GetOf(doc, "fields")) = <<>>
    THEN SchemaValidationError(ErrorCodes.MISSING_FIELDS, Undefined)
    ELSE IF ValidateEntries(ObjectEntries(GetOf(doc, "fields")), 1, <<>>).threw
    THEN ValidateEntries(ObjectEntries(GetOf(doc, "fields")), 1, <<>>)
    ELSE IF GetOf(doc, "metadata").k # "undefined"
            /\ validateMetadata(GetOf(doc, "metadata")).threw
    THEN validateMetadata(GetOf(doc, "metadata"))
    ELSE IF GetOf(doc, "confidence").k # "undefined"
    THEN validateConfidenceConfig(GetOf(doc, "confidence"))
    ELSE Returned

-----------------------------------------------------------------------------
(* Inputs: the schemas and the data the model runs the program on *)

\* The longest array in the data.
MaxItems == 2

\* The most fields in a schema built from SmallFields.
MaxFields == 2

\* The strings of the data.
StringSamples ==
    {\* null-like strings
     <<"n","u","l","l">>,   \* 'null'
     <<"N","/","A">>,   \* 'N/A'
     <<>>,   \* ''
     <<" ","n","o","n","e"," ">>,   \* ' none '
     <<"N","A">>,   \* 'NA'
     <<"u","n","d","e","f","i","n","e","d">>,   \* 'undefined'
     \* numeric literals, numeric prefixes and look-alikes
     <<"3","0">>,   \* '30'
     <<"1","0",".","5","0">>,   \* '10.50'
     <<" ","1","2","3"," ">>,   \* ' 123 '
     <<"3",".","9">>,   \* '3.9'
     <<"-","5">>,   \* '-5'
     <<"1","2","a","b","c">>,   \* '12abc'
     <<"1",",","2","3","4">>,   \* '1,234'
     <<"I","n","f","i","n","i","t","y">>,   \* 'Infinity'
     <<"a","b","c">>,   \* 'abc'
     \* spellings of booleans
     <<"t","r","u","e">>,   \* 'true'
     <<"Y","E","S">>,   \* 'YES'
     <<"n","o">>,   \* 'no'
     <<"0">>,   \* '0'
     <<"1">>,   \* '1'
     \* spellings of enum members
     <<"a","c","t","i","v","e">>,   \* 'active'
     <<"A","c","t","i","v","e">>,   \* 'Active'
     <<"s","e","e","d">>,   \* 'seed'
     <<"S","e","r","i","e","s"," ","A">>,   \* 'Series A'
     <<"S","E","R","I","E","S","-","A">>,   \* 'SERIES-A'
     <<"s","e","r","i","e","s"," ","a">>,   \* 'series a'
     <<"s","e","r","i","e","s","_","a">>,   \* 'series_a'
     <<"p","e","n","d","i","n","g">>,   \* 'pending'
     <<" ">>,   \* ' '
     \* dates in the formats of DATE_PATTERNS, and near misses
     <<"2","0","2","4","-","1","1","-","2","0">>,   \* '2024-11-20'
     <<"1","1","/","2","0","/","2","0","2","4">>,   \* '11/20/2024'
     <<"1","1","/","2","0","/","2","4">>,   \* '11/20/24'
     <<"1","1","/","2","0","/","9","9">>,   \* '11/20/99'
     <<"2","0","2","5","-","0","1","-","2","5","T","1","0",":","0","0",":","0","0">>,   \* '2025-01-25T10:00:00'
     <<" ","2","0","2","4","-","1","1","-","2","0"," ">>,   \* ' 2024-11-20 '
     <<"2","0","2","4","-","1","-","5">>,   \* '2024-1-5'
     <<"J","a","n","u","a","r","y"," ","1","5",","," ","2","0","2","4">>,   \* 'January 15, 2024'
     <<"1","5"," ","J","a","n"," ","2","0","2","4">>,   \* '15 Jan 2024'
     <<"2","0",".","1","1",".","2","0","2","4">>,   \* '20.11.2024'
     <<"1","3","/","4","5","/","2","0","2","4">>,   \* '13/45/2024'
     \* other strings
     <<"J","o","h","n">>,   \* 'John'
     <<"A","B","C","-","1","2","3">>}   \* 'ABC-123'

\* 30, 3.7, -5, 0, 150 and 1
NumberSamples == {30 * Scale, 370, -5 * Scale, 0, 150 * Scale, Scale}

\* The scalar JSON values, and an empty array and an empty object.
ScalarValues ==
    {Str(s) : s \in StringSamples} \cup {Num(n) : n \in NumberSamples}
    \cup {Bool(TRUE), Bool(FALSE), Null, Arr(<<>>), Obj(<<>>)}

\* The field definitions the schemas are built from, each under its name:
\* strings (plain, with an enum, with a date format, with a pattern), numbers
\* and integers with and without bounds, booleans, each required or optional,
\* a field named like a member of Object.prototype, and an object field used
\* inside another.
F ==
    [name |-> <<"name", Field("string", FALSE)>>,
     nick |-> <<"nick", Field("string", TRUE)>>,
     status |-> <<"status", WithEnum(Field("string", FALSE),
                    <<<<"a","c","t","i","v","e">>, <<"i","n","a","c","t","i","v","e">>>>)>>,
     round |-> <<"round", WithEnum(Field("string", TRUE),
                    <<<<"s","e","e","d">>, <<"s","e","r","i","e","s","_","a">>, <<>>>>)>>,
     when |-> <<"when", WithFormat(Field("string", FALSE), "date")>>,
     due |-> <<"due", WithFormat(Field("string", TRUE), "date")>>,
     ts |-> <<"ts", WithPattern(WithFormat(Field("string", TRUE), "date-time"),
                                "^\\d{4}-\\d{2}-\\d{2}T")>>,
     code |-> <<"code", WithPattern(Field("string", FALSE), "^[a-z]+$")>>,
     sku |-> <<"sku", WithPattern(Field("string", TRUE), "^[A-Z]{3}-[0-9]{3}$")>>,
     age |-> <<"age", WithMax(WithMin(Field("number", FALSE), 0), 120 * Scale)>>,
     price |-> <<"price", Field("number", TRUE)>>,
     cost |-> <<"price", Field("number", FALSE)>>,
     qty |-> <<"qty", WithMin(Field("integer", FALSE), Scale)>>,
     count |-> <<"count", Field("integer", TRUE)>>,
     flag |-> <<"flag", Field("boolean", FALSE)>>,
     done |-> <<"done", Field("boolean", TRUE)>>,
     constructor |-> <<"constructor", Field("string", FALSE)>>,
     geo |-> <<"geo", ObjectField(TRUE, <<<<"lat", Field("number", FALSE)>>>>)>>]

\* The array and object fields.
NF ==
    [items |-> <<"items", ArrayField(FALSE, <<F.name, F.cost, F.count>>)>>,
     tags |-> <<"tags", ArrayField(TRUE, <<F.round>>)>>,
     address |-> <<"address", ObjectField(FALSE, <<F.name, F.count, F.geo>>)>>,
     owner |-> <<"owner", ObjectField(TRUE, <<F.constructor, F.nick>>)>>]

ScalarFields ==
    {F.name, F.nick, F.status, F.round, F.when, F.due, F.ts, F.code, F.sku,
     F.age, F.price, F.qty, F.count, F.flag, F.done, F.constructor}

\* The items the arrays of the data are made of.
ItemSamples ==
    {Obj(<<<<"name", Str(<<"J","o","h","n">>)>>, <<"price", Num(30 * Scale)>>>>),
     Obj(<<<<"name", Str(<<"J","o","h","n">>)>>, <<"price", Str(<<"1","0",".","5","0">>)>>,
           <<"count", Str(<<"3",".","9">>)>>>>),
     Obj(<<<<"name", Str(<<"J","o","h","n">>)>>>>),
     Obj(<<<<"price", Str(<<"a","b","c">>)>>, <<"round", Str(<<"S","e","r","i","e","s"," ","A">>)>>>>),
     Null,
     Str(<<"a","b","c">>)}

\* Every array of at most MaxItems items.
ArrayValues ==
    {Arr(a) : a \in UNION {[1..n -> ItemSamples] : n \in 0..MaxItems}}

ObjectValues ==
    {Obj(<<<<"name", Str(<<"J","o","h","n">>)>>, <<"count", Num(30 * Scale)>>>>),
     Obj(<<<<"name", Num(30 * Scale)>>, <<"count", Str(<<"3",".","9">>)>>>>),
     Obj(<<<<"count", Num(370)>>, <<"nick", Str(<<"N","/","A">>)>>>>),
     Obj(<<<<"name", Str(<<"J","o","h","n">>)>>, <<"geo", Obj(<<<<"lat", Str(<<"1","0",".","5","0">>)>>>>)>>>>),
     Obj(<<<<"name", Str(<<"J","o","h","n">>)>>, <<"geo", Obj(<<>>)>>>>),
     Obj(<<<<"name", Str(<<"J","o","h","n">>)>>, <<"geo", Str(<<"n","u","l","l">>)>>>>),
     Obj(<<<<"constructor", Str(<<"J","o","h","n">>)>>, <<"nick", Num(0)>>>>)}

NestedFields == {NF.items, NF.tags, NF.address, NF.owner}

\* The fields the schemas of several fields are built from, and the few
\* values each takes there.
SmallFields == <<F.name, F.age, F.status, NF.items>>

SmallValues(field) ==
    CASE field = F.name -> {Str(<<"J","o","h","n">>), Num(30 * Scale), Obj(<<>>)}
      [] field = F.age ->
            {Num(30 * Scale), Str(<<"3","0">>), Num(150 * Scale), Str(<<"a","b","c">>)}
      [] field = F.status -> {Str(<<"a","c","t","i","v","e">>), Str(<<"A","c","t","i","v","e">>), Str(<<"p","e","n","d","i","n","g">>)}
      [] field = NF.items ->
            {Arr(<<Obj(<<<<"name", Str(<<"J","o","h","n">>)>>, <<"price", Num(30 * Scale)>>>>)>>),
             Arr(<<Obj(<<<<"name", Str(<<"J","o","h","n">>)>>>>), Null>>)}

\* The values a field takes in the data of a one-field schema.
AllValues(field) ==
    ScalarValues \cup (IF field \in NestedFields
                       THEN ArrayValues \cup ObjectValues ELSE {})

ValuesFor(field, small) ==
    IF small THEN SmallValues(field) ELSE AllValues(field)

RECURSIVE EntriesFor(_, _, _)
\* The data objects for fields i.. of a schema: each field is absent or
\* holds one of its values.
EntriesFor(fields, i, small) ==
    IF i > Len(fields) THEN {<<>>}
    ELSE LET rest == EntriesFor(fields, i + 1, small)
         IN rest \cup {<<<<fields[i][1], v>>>> \o r :
                          v \in ValuesFor(fields[i], small), r \in rest}

\* Schemas of one field, and of 2..MaxFields distinct fields of SmallFields in
\* any order.
OneFieldSchemas == {<<f>> : f \in ScalarFields \cup NestedFields}

IsInjective(f) == \A i, j \in DOMAIN f : f[i] = f[j] => i = j

SmallSchemas ==
    UNION {{[i \in 1..n |-> SmallFields[s[i]]] :
               s \in {s \in [1..n -> 1..Len(SmallFields)] : IsInjective(s)}} :
           n \in 2..MaxFields}

\* The data of a schema; under a schema of several fields the data may also
\* hold a key the schema does not declare.
DataFor(fields) ==
    IF Len(fields) = 1 THEN {Obj(e) : e \in EntriesFor(fields, 1, FALSE)}
    ELSE {Obj(e) : e \in EntriesFor(fields, 1, TRUE)}
         \cup {Obj(Append(e, <<"extra", Str(<<"x">>)>>)) :
                  e \in EntriesFor(fields, 1, TRUE)}

-----------------------------------------------------------------------------
(* The state machine: a caller holds a schema and a data object and calls  *)
(* coerceExtractedData or validateExtractedData on them.                   *)

NoCoerceResult == [data |-> <<>>, warnings |-> <<>>, threw |-> FALSE]

\* No PipelineResult yet: extract has not resolved.
NoPipelineResult == [resolved |-> FALSE]

NoValidationResult ==
    [valid |-> FALSE, errors |-> <<>>, warningsDefined |-> FALSE,
     warnings |-> <<>>, coercedData |-> <<>>, threw |-> FALSE]

Init ==
    /\ schema \in {[fields |-> f] : f \in OneFieldSchemas \cup SmallSchemas}
    /\ data \in DataFor(schema.fields)
    /\ pc = "ready"
    /\ coerceResult = NoCoerceResult
    /\ validationResult = NoValidationResult
    /\ document = Undefined
    /\ schemaResult = Returned
    /\ secondResult = NoCoerceResult
    /\ debug = FALSE
    /\ steps = <<>>
    /\ pipelineResult = NoPipelineResult
    /\ heap = <<>>
    /\ calls = <<>>

\* coerceExtractedData(data, schema.fields)
Coerce ==
    /\ pc = "ready"
    /\ coerceResult' = coerceExtractedData(data, schema.fields)
    /\ pc' = "coerced"
    /\ UNCHANGED <<schema, data, validationResult, secondResult,
                   schemaVars, pipelineVars, heapVars>>

\* validateExtractedData(data, schema)
Validate ==
    /\ pc = "ready"
    /\ validationResult' = validateExtractedData(data, schema)
    /\ pc' = "validated"
    /\ UNCHANGED <<schema, data, coerceResult, secondResult,
                   schemaVars, pipelineVars, heapVars>>

Next == Coerce \/ Validate

Spec == Init /\ [][Next]_vars

-----------------------------------------------------------------------------
(* The same calls on a date field holding a date in US or ISO notation      *)

\* The texts the dates are made of.  months, days, years: those of the
\* US-format dates, in and out of range, with and without a leading zero,
\* years of two, three and four digits on both sides of the pivot and of the
\* range.  isoDates: strings of the form YYYY-MM-DD, in and out of range.
\* suffixes: no time suffix, 'T10:00:00', 'T10:00', 'T10:00:00Z' and
\* 'T10:00:00.000Z'.
DateTexts ==
    [months |-> {<<"0">>, <<"1">>, <<"0","1">>, <<"1","2">>, <<"1","3">>},
     days |-> {<<"0">>, <<"1">>, <<"0","9">>, <<"3","1">>, <<"3","2">>},
     years |->
        {<<"0","0">>, <<"2","4">>, <<"4","9">>, <<"5","0">>, <<"9","9">>,
         <<"0","2","4">>, <<"0","0","2","4">>, <<"1","8","9","9">>,
         <<"1","9","0","0">>, <<"2","0","2","4">>, <<"2","1","0","0">>,
         <<"2","1","0","1">>},
     isoDates |->
        {<<"2","0","2","4","-","1","1","-","2","0">>,
         <<"2","0","2","5","-","0","1","-","2","5">>,
         <<"1","9","0","0","-","0","1","-","0","1">>,
         <<"2","1","0","0","-","1","2","-","3","1">>,
         <<"1","8","9","9","-","1","2","-","3","1">>,
         <<"2","0","2","4","-","1","3","-","4","5">>},
     suffixes |->
        {<<>>,
         <<"T","1","0",":","0","0",":","0","0">>,
         <<"T","1","0",":","0","0">>,
         <<"T","1","0",":","0","0",":","0","0","Z">>,
         <<"T","1","0",":","0","0",":","0","0",".","0","0","0","Z">>}]

UsDateText(m, d, y) == m \o <<"/">> \o d \o <<"/">> \o y

DateSamples ==
    {UsDateText(m, d, y) :
        m \in DateTexts.months, d \in DateTexts.days, y \in DateTexts.years}
    \cup {dt \o sfx : dt \in DateTexts.isoDates, sfx \in DateTexts.suffixes}

InitDates ==
    /\ schema \in {[fields |-> <<f>>] : f \in {F.when, F.due}}
    /\ data \in {Obj(<<<<schema.fields[1][1], Str(s)>>>>) : s \in DateSamples}
    /\ pc = "ready"
    /\ coerceResult = NoCoerceResult
    /\ validationResult = NoValidationResult
    /\ document = Undefined
    /\ schemaResult = Returned
    /\ secondResult = NoCoerceResult
    /\ debug = FALSE
    /\ steps = <<>>
    /\ pipelineResult = NoPipelineResult
    /\ heap = <<>>
    /\ calls = <<>>

SpecDates == InitDates /\ [][Next]_vars

\* Enums in which two members have the same normalised form, in either
\* order of declaration, and the values given to a string field that has
\* one: exact members, strings that only normalise to members, a string
\* matching nothing, and a boolean and a number.
AmbiguousEnums ==
    {<<<<"S","e","r","i","e","s"," ","A">>, <<"s","e","r","i","e","s","_","a">>>>,
     <<<<"s","e","r","i","e","s","_","a">>, <<"S","e","r","i","e","s"," ","A">>>>,
     <<<<>>, <<" ">>>>,
     <<<<" ">>, <<>>>>,
     <<<<"T","R","U","E">>, <<"T","r","u","e">>>>,
     <<<<"3","0"," ">>, <<" ","3","0">>, <<"x">>>>}

EnumInputs ==
    {Str(s) : s \in {<<"S","E","R","I","E","S"," ","A">>,
                     <<"S","e","r","i","e","s"," ","A">>,
                     <<"s","e","r","i","e","s","_","a">>,
                     <<" ">>, <<>>, <<" "," ">>,
                     <<"t","r","u","e">>, <<"T","r","u","e">>,
                     <<"3","0">>, <<"x">>, <<"y">>}}
    \cup {Bool(TRUE), Num(30 * Scale)}

InitEnums ==
    /\ schema \in {[fields |-> <<<<"choice", WithEnum(Field("string", opt), e)>>>>] :
                      opt \in BOOLEAN, e \in AmbiguousEnums}
    /\ data \in {Obj(<<<<"choice", v>>>>) : v \in EnumInputs}
    /\ pc = "ready"
    /\ coerceResult = NoCoerceResult
    /\ validationResult = NoValidationResult
    /\ document = Undefined
    /\ schemaResult = Returned
    /\ secondResult = NoCoerceResult
    /\ debug = FALSE
    /\ steps = <<>>
    /\ pipelineResult = NoPipelineResult
    /\ heap = <<>>
    /\ calls = <<>>

SpecEnums == InitEnums /\ [][Next]_vars

\* A second pass: coerceExtractedData on the data the first call returned,
\* with the same fields.
CoerceAgain ==
    /\ pc = "coerced"
    /\ ~coerceResult.threw
    /\ secondResult' = coerceExtractedData(Obj(coerceResult.data), schema.fields)
    /\ pc' = "recoerced"
    /\ UNCHANGED <<schema, data, coerceResult, validationResult,
                   schemaVars, pipelineVars, heapVars>>

InitTwice == Init \/ InitDates \/ InitEnums

NextTwice == Coerce \/ CoerceAgain

SpecTwice == InitTwice /\ [][NextTwice]_vars

-----------------------------------------------------------------------------
(* Schema documents: what JSON.parse hands to validateSchema, with the      *)
(* entries of every mapping in the order the document declares them.        *)

MaxDeclared == 2

Txt ==
    [string |-> <<"s","t","r","i","n","g">>,
     number |-> <<"n","u","m","b","e","r">>,
     integer |-> <<"i","n","t","e","g","e","r">>,
     boolean |-> <<"b","o","o","l","e","a","n">>,
     array |-> <<"a","r","r","a","y">>,
     object |-> <<"o","b","j","e","c","t">>,
     text |-> <<"t","e","x","t">>,
     a |-> <<"a">>, b |-> <<"b">>,
     name |-> <<"n","a","m","e">>,
     a_1 |-> <<"a","_","1">>,
     underscore |-> <<"_","x">>,
     one |-> <<"1">>, two |-> <<"2">>, ten |-> <<"1","0">>,
     digitFirst |-> <<"2","a","b","c">>,
     hyphen |-> <<"b","a","d","-","n","a","m","e">>,
     empty |-> <<>>, blank |-> <<" ">>,
     goodPattern |-> <<"^","[","a","-","z","]","+","$">>,
     openGroup |-> <<"(">>]

\* { type: <type>, ...rest }
Def(type, rest) == Obj(<<<<"type", Str(type)>>>> \o rest)

MinMax(min, max) == <<<<"min", Num(min * Scale)>>, <<"max", Num(max * Scale)>>>>

EnumOf(members) == <<<<"enum", Arr(members)>>>>

ArrayOf(properties) ==
    Def(Txt.array, <<<<"items", Def(Txt.object,
                                    <<<<"properties", Obj(properties)>>>>)>>>>)

ObjectOf(properties) == Def(Txt.object, <<<<"properties", Obj(properties)>>>>)

\* Definitions without nested properties: well formed ones, and one for each
\* check of validateFieldDefinition and the functions it calls.
FlatDefs ==
    {Null, Str(Txt.string), Num(Scale), Arr(<<>>), Obj(<<>>),
     Obj(<<<<"type", Num(Scale)>>>>), Def(Txt.text, <<>>), Def(<<>>, <<>>)}
    \cup {Def(ty, <<>>) : ty \in {Txt.string, Txt.number, Txt.integer,
                                  Txt.boolean, Txt.array, Txt.object}}
    \cup {Def(Txt.string, <<<<"optional", Bool(TRUE)>>>>),
          Def(Txt.string, <<<<"optional", Str(Txt.a)>>>>),
          Def(Txt.string, <<<<"description", Str(Txt.text)>>>>),
          Def(Txt.number, <<<<"description", Num(Scale)>>>>)}
    \cup {Def(ty, EnumOf(e)) :
            ty \in {Txt.string, Txt.number, Txt.boolean},
            e \in {<<Str(Txt.a), Str(Txt.b)>>, <<>>,
                   <<Str(Txt.a), Str(Txt.a)>>, <<Str(Txt.a), Num(Scale)>>}}
    \cup {Def(Txt.string, <<<<"enum", e>>>>) : e \in {Str(Txt.a), Null, Num(0)}}
    \cup {Def(ty, MinMax(min, max)) :
            ty \in {Txt.string, Txt.number, Txt.integer, Txt.boolean},
            min \in {1, 5}, max \in {1, 5}}
    \cup {Def(Txt.number, <<<<"min", Str(Txt.one)>>>>),
          Def(Txt.number, <<<<"max", Str(Txt.one)>>>>),
          Def(Txt.number, <<<<"min", Num(5 * Scale)>>>>)}
    \cup {Def(ty, <<<<"pattern", p>>>>) :
            ty \in {Txt.string, Txt.boolean},
            p \in {Str(Txt.goodPattern), Str(Txt.openGroup), Num(Scale)}}
    \cup {Def(Txt.array, <<<<"items", i>>>>) :
            i \in {Null, Str(Txt.object), Def(Txt.string, <<>>),
                   Def(Txt.object, <<>>),
                   Def(Txt.object, <<<<"properties", Obj(<<>>)>>>>),
                   Def(Txt.object, <<<<"properties", Arr(<<>>)>>>>)}}
    \cup {Def(Txt.object, <<<<"properties", p>>>>) :
            p \in {Null, Str(Txt.a), Obj(<<>>), Arr(<<>>)}}

FieldNames ==
    {Txt.name, Txt.a_1, Txt.underscore, Txt.one, Txt.digitFirst, Txt.hyphen,
     Txt.empty, Txt.blank}

\* The properties nested under an array or an object field.
NestedProperties ==
    {<<<<n, d>>>> :
        n \in {Txt.a, Txt.hyphen, Txt.empty, Txt.one},
        d \in {Def(Txt.string, <<>>), Def(Txt.text, <<>>), Obj(<<>>),
               Def(Txt.number, MinMax(5, 1)),
               Def(Txt.boolean, EnumOf(<<Str(Txt.a), Str(Txt.a)>>))}}
    \cup {<<<<Txt.a, Def(Txt.string, <<>>)>>, <<n, d>>>> :
            n \in {Txt.b, Txt.hyphen},
            d \in {Def(Txt.string, <<>>), Def(Txt.text, <<>>)}}

NestedDefs ==
    {ArrayOf(p) : p \in NestedProperties}
    \cup {ObjectOf(p) : p \in NestedProperties}
    \cup {ObjectOf(<<<<Txt.b, d>>>>) :
            d \in {ArrayOf(p) : p \in NestedProperties}
                  \cup {ObjectOf(p) : p \in NestedProperties}}

\* The fields of documents that declare several: keys that are array indices
\* among them, and a definition that is rejected in any position.
DeclaredFields ==
    {f \in UNION {[1..n -> {Txt.a, Txt.b, Txt.one, Txt.two, Txt.ten}
                           \X {Def(Txt.string, <<>>), Obj(<<>>),
                               Def(Txt.number, MinMax(5, 1))}] :
                  n \in 2..MaxDeclared} :
        \A i, j \in DOMAIN f : i # j => f[i][1] # f[j][1]}

MetadataSamples ==
    {Null, Str(Txt.a), Arr(<<>>), Obj(<<>>),
     Obj(<<<<"name", Str(Txt.a)>>, <<"version", Str(Txt.one)>>>>),
     Obj(<<<<"name", Num(Scale)>>>>), Obj(<<<<"version", Num(Scale)>>>>),
     Obj(<<<<"description", Bool(TRUE)>>>>)}

ConfidenceSamples ==
    {Null, Str(Txt.a), Obj(<<>>),
     Obj(<<<<"threshold", Num(80 * Scale)>>>>),
     Obj(<<<<"threshold", Str(Txt.ten)>>,
           <<"failOnLowConfidence", Bool(TRUE)>>>>),
     Obj(<<<<"threshold", Num(80 * Scale)>>,
           <<"failOnLowConfidence", Str(Txt.a)>>>>)}
    \cup {Obj(<<<<"threshold", Num(th)>>,
                <<"failOnLowConfidence", Bool(FALSE)>>>>) :
            th \in {-1, 0, 80 * Scale, 100 * Scale, 100 * Scale + 1}}

Documents ==
    {Undefined, Null, Str(Txt.text), Str(<<>>), Num(0), Bool(FALSE),
     Arr(<<>>), Arr(<<Obj(<<>>)>>), Obj(<<>>)}
    \cup {Obj(<<<<"fields", f>>>>) :
            f \in {Null, Str(Txt.a), Num(Scale), Obj(<<>>), Arr(<<>>),
                   Arr(<<Def(Txt.string, <<>>)>>)}}
    \cup {Obj(<<<<"fields", Obj(<<<<n, d>>>>)>>>>) :
            n \in FieldNames, d \in FlatDefs}
    \cup {Obj(<<<<"fields", Obj(<<<<n, d>>>>)>>>>) :
            n \in {Txt.name, Txt.hyphen}, d \in NestedDefs}
    \cup {Obj(<<<<"fields", Obj(f)>>>>) : f \in DeclaredFields}
    \cup {Obj(<<<<"fields", Obj(<<<<Txt.name, d>>>>)>>, <<"metadata", m>>>>) :
            d \in {Def(Txt.string, <<>>), Obj(<<>>)}, m \in MetadataSamples}
    \cup {Obj(<<<<"fields", Obj(<<<<Txt.name, Def(Txt.string, <<>>)>>>>)>>,
                <<"metadata", m>>, <<"confidence", c>>>>) :
            m \in {Obj(<<>>), Null}, c \in ConfidenceSamples}
    \cup {Obj(<<<<"fields", Obj(<<<<Txt.name, d>>>>)>>, <<"confidence", c>>>>) :
            d \in {Def(Txt.string, <<>>), Obj(<<>>)}, c \in ConfidenceSamples}

InitSchema ==
    /\ document \in Documents
    /\ schemaResult = Returned
    /\ pc = "ready"
    /\ schema = [fields |-> <<>>]
    /\ data = Obj(<<>>)
    /\ coerceResult = NoCoerceResult
    /\ validationResult = NoValidationResult
    /\ secondResult = NoCoerceResult
    /\ debug = FALSE
    /\ steps = <<>>
    /\ pipelineResult = NoPipelineResult
    /\ heap = <<>>
    /\ calls = <<>>

\* validateSchema(document)
ValidateSchema ==
    /\ pc = "ready"
    /\ schemaResult' = validateSchema(document)
    /\ pc' = "schema_validated"
    /\ UNCHANGED <<schema, data, coerceResult, validationResult, document,
                   secondResult, pipelineVars, heapVars>>

NextSchema == ValidateSchema

SpecSchema == InitSchema /\ [][NextSchema]_vars

-----------------------------------------------------------------------------
(* The same functions on objects held by reference.  The heap is the        *)
(* sequence of the objects and arrays allocated so far, an address is an    *)
(* index into it, and a member that is itself an object or an array is a    *)
(* reference to its address.  Every assignment of the code is a write to    *)
(* the object it names.                                                     *)

Ref(at) == [k |-> "ref", at |-> at]

\* A new object or array: `{ ... }', `[]'
Allocate(h, node) == [heap |-> Append(h, node), ref |-> Ref(Len(h) + 1)]

RECURSIVE Store(_, _)
RECURSIVE StoreAll(_, _, _)

\* The members `values' from the i-th on placed in the heap one after the
\* other: the heap after it, and the members as they are held (scalars as
\* they are, objects and arrays as references).
StoreAll(h, values, i) ==
    IF i > Len(values) THEN [heap |-> h, refs |-> <<>>]
    ELSE LET first == Store(h, values[i])
             rest == StoreAll(first.heap, values, i + 1)
         IN [heap |-> rest.heap, refs |-> <<first.ref>> \o rest.refs]

\* A value as the caller holds it: an object or an array is built in the
\* heap, members first.
Store(h, value) ==
    IF value.k = "object"
    THEN LET m == StoreAll(h, [i \in 1..Len(value.o) |-> value.o[i][2]], 1)
         IN Allocate(m.heap, Obj([i \in 1..Len(value.o) |->
                                      <<value.o[i][1], m.refs[i]>>]))
    ELSE IF value.k = "array"
    THEN LET m == StoreAll(h, value.a, 1)
         IN Allocate(m.heap, Arr(m.refs))
    ELSE [heap |-> h, ref |-> value]

RECURSIVE Load(_, _)
\* The value a member stands for: what deep equality compares.
Load(h, v) ==
    IF v.k # "ref" THEN v
    ELSE IF h[v.at].k = "object"
    THEN Obj([i \in 1..Len(h[v.at].o) |->
                 <<h[v.at].o[i][1], Load(h, h[v.at].o[i][2])>>])
    ELSE Arr([i \in 1..Len(h[v.at].a) |-> Load(h, h[v.at].a[i])])

\* ref[key] = v
Write(h, ref, key, v) == [h EXCEPT ![ref.at] = Obj(Set(@.o, key, v))]

\* ref.push(...items)
Push(h, ref, items) == [h EXCEPT ![ref.at] = Arr(@.a \o items)]

\* SpreadCopy handing out the data object itself.
SpreadCopyAliased(h, dataRef) ==
    IF dataRef.k = "ref" /\ h[dataRef.at].k = "object"
    THEN [heap |-> h, ref |-> dataRef]
    ELSE Allocate(h, Obj(<<>>))

\* `const coercedData = { ...data }': a new object with the own members of
\* data, nested objects shared with it.
SpreadCopy(h, dataRef) ==
    Allocate(h, Obj(IF dataRef.k = "ref" THEN OwnEntries(h[dataRef.at])
                    ELSE <<>>))

\* An accumulator that is the one an earlier call filled, when there is one.
NewAccumulatorShared(h) ==
    LET filled == {at \in DOMAIN h :
                      /\ h[at].k = "array"
                      /\ h[at].a # <<>>
                      /\ "k" \notin DOMAIN h[at].a[1]}
    IN IF filled = {} THEN Allocate(h, Arr(<<>>))
       ELSE [heap |-> h,
             ref |-> Ref(CHOOSE at \in filled : \A o \in filled : at <= o)]

\* `const warnings: CoercionWarning[] = []', `const errors = []'
NewAccumulator(h) == Allocate(h, Arr(<<>>))

RECURSIVE coerceExtractedDataAt(_, _, _)
RECURSIVE coerceArrayItemsAt(_, _, _, _)
RECURSIVE CoerceFieldsAt(_, _, _, _)
RECURSIVE CoerceItemsAt(_, _, _, _, _)

\* What a scalar branch assigns: the value it was given (the same object,
\* when it is one) unless coercion made another.
Assigned(h, value, coerced) ==
    IF coerced = Load(h, value) THEN [heap |-> h, ref |-> value]
    ELSE Store(h, coerced)

\* coercedData[fieldName] = <the callee's result>; warnings.push(...its
\* warnings), after `w.field = prefix.field' on each of them when a prefix is
\* given.  acc: the heap, coercedData and warnings of the caller; r: what the
\* callee returned (its result under `data', its warnings, the heap after it).
PutNested(acc, fieldName, r, prefixed, prefix) ==
    LET renamed ==
            IF prefixed
            THEN [r.heap EXCEPT ![r.warnings.at] =
                                    Arr(PrefixWarnings(@.a, prefix))]
            ELSE r.heap
    IN [acc EXCEPT
          !.heap = Push(Write(renamed, acc.data, fieldName, r.data),
                        acc.warnings, renamed[r.warnings.at].a),
          !.threw = r.threw]

\* The last branch of the loop: coercedData[fieldName] = result.value and
\* warnings.push(result.warning) when there is one.
PutScalar(acc, fieldName, value, scalar) ==
    LET assigned == Assigned(acc.heap, value, scalar.value)
    IN [acc EXCEPT
          !.heap = Push(Write(assigned.heap, acc.data, fieldName, assigned.ref),
                        acc.warnings, scalar.warning)]

\* One iteration of the loop of coerceExtractedData: value = data[fieldName]
\* as it is held, v the value it stands for.
CoerceFieldAt(fieldName, fieldDef, value, v, acc) ==
    IF IsNullish(v)
    THEN [acc EXCEPT !.heap = Write(@, acc.data, fieldName, value)]
    ELSE IF fieldDef.type = "array" /\ v.k = "array"
            /\ fieldDef.items.type # "none"
    THEN PutNested(acc, fieldName,
                   coerceArrayItemsAt(acc.heap, value, fieldDef.items,
                                      fieldName),
                   FALSE, "")
    ELSE IF fieldDef.type = "object" /\ TypeOf(v) = "object"
            /\ v.k # "array" /\ fieldDef.hasProperties
    THEN PutNested(acc, fieldName,
                   coerceExtractedDataAt(acc.heap, value, fieldDef.properties),
                   TRUE, fieldName)
    ELSE PutScalar(acc, fieldName, value,
                   CoerceScalar(v, fieldDef, fieldName))

\* The loop of coerceExtractedData from field i.
CoerceFieldsAt(dataRef, fields, i, acc) ==
    IF i > Len(fields) \/ acc.threw THEN acc
    ELSE CoerceFieldsAt(dataRef, fields, i + 1,
            IF dataRef.k # "ref" THEN [acc EXCEPT !.threw = TRUE]
            ELSE IF ~HasProperty(OwnEntries(acc.heap[dataRef.at]),
                                 fields[i][1])
            THEN acc
            ELSE CoerceFieldAt(fields[i][1], fields[i][2],
                               Get(OwnEntries(acc.heap[dataRef.at]),
                                   fields[i][1]),
                               Load(acc.heap,
                                    Get(OwnEntries(acc.heap[dataRef.at]),
                                        fields[i][1])),
                               acc))

\* coerceExtractedData(data, fields) with data held by reference: the heap
\* after the call and the references to the returned data and warnings.
coerceExtractedDataAt(h, dataRef, fields) ==
    LET coercedData == SpreadCopy(h, dataRef)
        warnings == NewAccumulator(coercedData.heap)
    IN CoerceFieldsAt(dataRef, fields, 1,
                      [heap |-> warnings.heap, data |-> coercedData.ref,
                       warnings |-> warnings.ref, threw |-> FALSE])

\* coercedArray.push(coercedItem); warnings.push(...itemWarnings), after
\* `w.field = itemPath.field' on each of them.  r: what coerceExtractedData
\* returned for the item.
PutItemAt(acc, r, itemPath) ==
    LET renamed == [r.heap EXCEPT ![r.warnings.at] =
                                      Arr(PrefixWarnings(@.a, itemPath))]
    IN [acc EXCEPT
          !.heap = Push(Push(renamed, acc.data, <<r.data>>),
                        acc.warnings, renamed[r.warnings.at].a),
          !.threw = r.threw]

\* The loop of coerceArrayItems from item i; acc.data is coercedArray.
CoerceItemsAt(arrayRef, itemDef, fieldName, i, acc) ==
    IF i > Len(acc.heap[arrayRef.at].a) \/ acc.threw THEN acc
    ELSE CoerceItemsAt(arrayRef, itemDef, fieldName, i + 1,
            IF IsObjectItem(Load(acc.heap, acc.heap[arrayRef.at].a[i]), itemDef)
            THEN PutItemAt(acc,
                           coerceExtractedDataAt(acc.heap,
                                                 acc.heap[arrayRef.at].a[i],
                                                 itemDef.properties),
                           fieldName \o "[" \o ToString(i - 1) \o "]")
            ELSE [acc EXCEPT
                    !.heap = Push(@, acc.data, <<acc.heap[arrayRef.at].a[i]>>)])

coerceArrayItemsAt(h, arrayRef, itemDef, fieldName) ==
    LET coercedArray == Allocate(h, Arr(<<>>))
        warnings == NewAccumulator(coercedArray.heap)
    IN CoerceItemsAt(arrayRef, itemDef, fieldName, 1,
                     [heap |-> warnings.heap, data |-> coercedArray.ref,
                      warnings |-> warnings.ref, threw |-> FALSE])

\* The rest of validateExtractedData once errors is allocated and coercion
\* has returned c: the validation reads the coerced copy, and the result
\* refers to errors, warnings and coercedData.
ValidateCoercedAt(errors, c, fields) ==
    [heap |-> Push(c.heap, errors.ref,
                   IF c.threw THEN <<>>
                   ELSE ValidateTopLevel(Load(c.heap, c.data).o, fields, 1)),
     errors |-> errors.ref, data |-> c.data, warnings |-> c.warnings,
     threw |-> c.threw]

\* The call with errors allocated.
ValidateWith(errors, dataRef, fields) ==
    ValidateCoercedAt(errors,
                      coerceExtractedDataAt(errors.heap, dataRef, fields),
                      fields)

\* validateExtractedData(data, schema) with data held by reference.
validateExtractedDataAt(h, dataRef, schemaValue) ==
    ValidateWith(NewAccumulator(h), dataRef, schemaValue.fields)

\* The most calls one run makes.
MaxCalls == 2

\* The (fields, data) pairs of the calls: nested objects, arrays of objects,
\* values that coercion changes and values it leaves alone, and a data
\* argument that is no object.
CallSamples ==
    {[fields |-> <<NF.address>>, data |-> Obj(<<<<"address", v>>>>)] :
        v \in ObjectValues}
    \cup {[fields |-> <<F.age, NF.items>>,
           data |-> Obj(<<<<"age", a>>, <<"items", i>>>>)] :
            a \in {Str(<<"3","0">>), Num(150 * Scale)},
            i \in SmallValues(NF.items)}
    \cup {[fields |-> <<F.age>>, data |-> Null]}

InitCalls ==
    /\ heap = <<>>
    /\ calls = <<>>
    /\ pc = "ready"
    /\ schema = [fields |-> <<>>]
    /\ data = Obj(<<>>)
    /\ coerceResult = NoCoerceResult
    /\ validationResult = NoValidationResult
    /\ document = Undefined
    /\ schemaResult = Returned
    /\ secondResult = NoCoerceResult
    /\ debug = FALSE
    /\ steps = <<>>
    /\ pipelineResult = NoPipelineResult

\* The arguments of the next call: a new data object, or the data object of
\* an earlier call once more.  h is the heap with that object in it.
Arguments ==
    {[fields |-> s.fields, data |-> s.data, h |-> Store(heap, s.data).heap,
      input |-> Store(heap, s.data).ref] : s \in CallSamples}
    \cup {[fields |-> calls[i].fields, data |-> Load(heap, calls[i].input),
           h |-> heap, input |-> calls[i].input] : i \in 1..Len(calls)}

\* The return of a call on the arguments a: the heap is as the call left it
\* and the caller keeps the arguments and what was returned.
CallReturned(op, a, r) ==
    /\ heap' = r.heap
    /\ calls' = Append(calls,
           [op |-> op, fields |-> a.fields, data |-> a.data,
            input |-> a.input, coercedData |-> r.data, warnings |-> r.warnings,
            errors |-> IF op = "validate" THEN r.errors ELSE Null,
            threw |-> r.threw])

\* One call of coerceExtractedData, from its first statement to its return.
CallCoerce ==
    /\ Len(calls) < MaxCalls
    /\ \E a \in Arguments :
          CallReturned("coerce", a,
                       coerceExtractedDataAt(a.h, a.input, a.fields))
    /\ UNCHANGED <<schema, data, pc, coerceResult, validationResult,
                   secondResult, schemaVars, pipelineVars>>

\* One call of validateExtractedData.
CallValidate ==
    /\ Len(calls) < MaxCalls
    /\ \E a \in Arguments :
          CallReturned("validate", a,
              validateExtractedDataAt(a.h, a.input, [fields |-> a.fields]))
    /\ UNCHANGED <<schema, data, pc, coerceResult, validationResult,
                   secondResult, schemaVars, pipelineVars>>

NextCalls == CallCoerce \/ CallValidate

SpecCalls == InitCalls /\ [][NextCalls]_vars

-----------------------------------------------------------------------------
(* ExtractionPipeline.extract.  The LLM client is the environment: its      *)
(* constructor returns or throws, its extract resolves or rejects.  The     *)
(* durations and the metadata of a result are not modelled.                 *)

\* What a step's function did: returned a value, or threw an error.
ReturnedValue(value) == [threw |-> FALSE, value |-> value]
Threw(error) == [threw |-> TRUE, error |-> error]

\* The values thrown: PipelineError with a code, another Error object (a
\* TypeError among them), or null / undefined.
PipelineError(code) == [kind |-> "PipelineError", code |-> code]
ErrorObject == [kind |-> "Error", code |-> ""]
NullishError == [kind |-> "nullish", code |-> ""]

\* recordStep letting what the step's function threw out.
recordStepUncaught(name, outcome) ==
    IF ~outcome.threw
    THEN ReturnedValue([step |-> name, success |-> TRUE,
                        data |-> outcome.value])
    ELSE outcome

\* recordStep and recordStepAsync: the StepResult of the step; reading
\* `.message' of a thrown null or undefined throws a TypeError out of it.
recordStep(name, outcome) ==
    IF ~outcome.threw
    THEN ReturnedValue([step |-> name, success |-> TRUE,
                        data |-> outcome.value])
    ELSE IF outcome.error.kind = "nullish" THEN Threw(ErrorObject)
    ELSE ReturnedValue([step |-> name, success |-> FALSE, data |-> Undefined])

\* `steps: this.debug ? steps : undefined'
StepsOf(dbg, recorded) == IF dbg THEN recorded ELSE Undefined

\* The catch block of extract: the result for a PipelineError, for another
\* error object, and the rejection when `.message' of null or undefined is
\* read.
Caught(error, dbg, recorded) ==
    IF error.kind = "nullish" THEN [resolved |-> FALSE, rejected |-> TRUE]
    ELSE [resolved |-> TRUE, success |-> FALSE, hasData |-> FALSE,
          data |-> Undefined, confidence |-> Undefined,
          meetsThreshold |-> FALSE,
          errors |-> <<[code |-> IF error.kind = "PipelineError"
                                 THEN error.code ELSE "UNKNOWN_ERROR"]>>,
          hasWarnings |-> FALSE, steps |-> StepsOf(dbg, recorded)]

\* The result returned when validation.valid is false.
ValidationFailure(validation, dbg, recorded) ==
    [resolved |-> TRUE, success |-> FALSE, hasData |-> FALSE,
     data |-> Undefined, confidence |-> Undefined, meetsThreshold |-> FALSE,
     errors |-> validation.errors, hasWarnings |-> FALSE,
     steps |-> StepsOf(dbg, recorded)]

\* `extraction.confidence > threshold' in place of >=.
MeetsStrictly(confidence, threshold) == confidence > threshold

\* extraction.confidence >= threshold
Meets(confidence, threshold) == confidence >= threshold

\* The function of the check_confidence step.
CheckConfidenceOf(schemaValue, extraction) ==
    IF ~schemaValue.hasConfidence
    THEN [meetsThreshold |-> TRUE, shouldFail |-> FALSE]
    ELSE [meetsThreshold |->
              Meets(extraction.confidence.n, schemaValue.confidence.threshold),
          shouldFail |->
              /\ ~Meets(extraction.confidence.n,
                        schemaValue.confidence.threshold)
              /\ schemaValue.confidence.failOnLowConfidence]

\* The results returned after the confidence check: the failure when
\* shouldFail, the success otherwise; both carry extraction.data.
Checked(extraction, confidenceCheck, dbg, recorded) ==
    [resolved |-> TRUE, success |-> ~confidenceCheck.shouldFail,
     hasData |-> TRUE, data |-> extraction.data,
     confidence |-> extraction.confidence,
     meetsThreshold |-> IF confidenceCheck.shouldFail THEN FALSE
                        ELSE confidenceCheck.meetsThreshold,
     errors |-> IF confidenceCheck.shouldFail
                THEN <<[code |-> "CONFIDENCE_ERROR"]>> ELSE <<>>,
     hasWarnings |-> FALSE, steps |-> StepsOf(dbg, recorded)]

\* The requests: a schema of one or two fields, with no confidence config or
\* with a threshold and failOnLowConfidence.
ConfidenceConfigs ==
    {[threshold |-> 80 * Scale, failOnLowConfidence |-> TRUE],
     [threshold |-> 80 * Scale, failOnLowConfidence |-> FALSE],
     [threshold |-> 0, failOnLowConfidence |-> TRUE]}

RequestSchemas ==
    LET fieldLists == {<<F.age>>, <<F.name, F.age>>, <<F.status>>}
    IN {[fields |-> f, hasConfidence |-> FALSE, confidence |-> Undefined] :
           f \in fieldLists}
       \cup {[fields |-> f, hasConfidence |-> TRUE, confidence |-> c] :
                f \in fieldLists, c \in ConfidenceConfigs}

\* What `new LLMClient(config)' does.
ClientOutcomes ==
    {ReturnedValue([k |-> "client"]), Threw(ErrorObject), Threw(NullishError)}

\* What client.extract does: resolves with an ExtractionResponse or with
\* nothing, or rejects.
ExtractOutcomes(fields) ==
    {ReturnedValue([k |-> "extraction", data |-> d, confidence |-> Num(c)]) :
        d \in DataFor(fields), c \in {0, 79 * Scale, 80 * Scale, 95 * Scale}}
    \cup {ReturnedValue(Undefined), Threw(ErrorObject), Threw(NullishError)}

InitPipeline ==
    /\ schema \in RequestSchemas
    /\ data = Undefined
    /\ pc = "create_client"
    /\ coerceResult = NoCoerceResult
    /\ validationResult = NoValidationResult
    /\ document = Undefined
    /\ schemaResult = Returned
    /\ secondResult = NoCoerceResult
    /\ debug \in BOOLEAN
    /\ steps = <<>>
    /\ pipelineResult = NoPipelineResult
    /\ heap = <<>>
    /\ calls = <<>>

\* The end of a run: extract resolves with (or rejects as) result.
Settle(result, recorded) ==
    /\ pipelineResult' = result
    /\ steps' = recorded
    /\ pc' = "done"

\* The run goes on to the step next.
GoOn(next, recorded) ==
    /\ steps' = recorded
    /\ pc' = next
    /\ UNCHANGED pipelineResult

\* After the create_client step r: a failed step is an LLM_ERROR.
ClientCreated(r) ==
    IF r.threw THEN Settle(Caught(r.error, debug, steps), steps)
    ELSE IF ~r.value.success
    THEN Settle(Caught(PipelineError("LLM_ERROR"), debug, Append(steps, r.value)),
                Append(steps, r.value))
    ELSE GoOn("llm_extract", Append(steps, r.value))

\* Step 1: create the client.
CreateClient ==
    /\ pc = "create_client"
    /\ \E outcome \in ClientOutcomes :
          ClientCreated(recordStep("create_client", outcome))
    /\ UNCHANGED <<schema, data, coerceResult, validationResult, secondResult,
                   debug, schemaVars, heapVars>>

\* After the llm_extract step r: a failed step or a falsy response is an
\* LLM_ERROR.
Extracted(r) ==
    IF r.threw THEN Settle(Caught(r.error, debug, steps), steps)
    ELSE IF ~r.value.success \/ ~Truthy(r.value.data)
    THEN Settle(Caught(PipelineError("LLM_ERROR"), debug, Append(steps, r.value)),
                Append(steps, r.value))
    ELSE GoOn("validate_data", Append(steps, r.value))

\* Step 2: call the LLM.
LlmExtract ==
    /\ pc = "llm_extract"
    /\ \E outcome \in ExtractOutcomes(schema.fields) :
          Extracted(recordStep("llm_extract", outcome))
    /\ UNCHANGED <<schema, data, coerceResult, validationResult, secondResult,
                   debug, schemaVars, heapVars>>

\* The validate_data step: what validateExtractedData did on extraction.data.
ValidateOutcome(extraction, schemaValue) ==
    LET v == validateExtractedData(extraction.data, schemaValue)
    IN IF v.threw THEN Threw(ErrorObject) ELSE ReturnedValue(v)

\* The run going on to the confidence check whatever validation.valid is.
ValidatedGoesOn(r) ==
    IF r.threw THEN Settle(Caught(r.error, debug, steps), steps)
    ELSE IF ~r.value.success
    THEN Settle(Caught(ErrorObject, debug, Append(steps, r.value)),
                Append(steps, r.value))
    ELSE GoOn("check_confidence", Append(steps, r.value))

\* After the validate_data step r: reading `.valid' of the data of a failed
\* step throws a TypeError; an invalid result ends the run.
ValidatedThen(r) ==
    IF r.threw THEN Settle(Caught(r.error, debug, steps), steps)
    ELSE IF ~r.value.success
    THEN Settle(Caught(ErrorObject, debug, Append(steps, r.value)),
                Append(steps, r.value))
    ELSE IF ~r.value.data.valid
    THEN Settle(ValidationFailure(r.value.data, debug, Append(steps, r.value)),
                Append(steps, r.value))
    ELSE GoOn("check_confidence", Append(steps, r.value))

\* Step 3: validate the extracted data.
ValidateData ==
    /\ pc = "validate_data"
    /\ ValidatedThen(recordStep("validate_data",
                                ValidateOutcome(steps[2].data, schema)))
    /\ UNCHANGED <<schema, data, coerceResult, validationResult, secondResult,
                   debug, schemaVars, heapVars>>

\* After the check_confidence step r: the result is returned.
ConfidenceChecked(r) ==
    Settle(Checked(steps[2].data, r.value.data, debug, Append(steps, r.value)),
           Append(steps, r.value))

\* Step 4: check the confidence threshold and return.
CheckConfidence ==
    /\ pc = "check_confidence"
    /\ ConfidenceChecked(recordStep("check_confidence",
                            ReturnedValue(CheckConfidenceOf(schema, steps[2].data))))
    /\ UNCHANGED <<schema, data, coerceResult, validationResult, secondResult,
                   debug, schemaVars, heapVars>>

NextPipeline == CreateClient \/ LlmExtract \/ ValidateData \/ CheckConfidence

SpecPipeline == InitPipeline /\ [][NextPipeline]_vars

-----------------------------------------------------------------------------
(* Conformance of a value to a schema, stated on the value alone *)

RECURSIVE ConformsValue(_, _)
RECURSIVE ConformsObject(_, _)

\* A field is present in an object when the object has it as an own key with
\* a value that is neither null nor undefined.
Present(o, name) == HasOwn(o, name) /\ ~IsNullish(OwnGet(o, name))

InRange(n, fieldDef) ==
    /\ fieldDef.hasMin => n >= fieldDef.min
    /\ fieldDef.hasMax => n <= fieldDef.max

\* v has the type fieldDef declares and meets its constraints.
ConformsValue(v, fieldDef) ==
    CASE fieldDef.type = "string" ->
            /\ v.k = "string"
            /\ fieldDef.hasEnum => v.s \in Range(fieldDef.enum)
            /\ fieldDef.pattern # "" => RegExpTest(fieldDef.pattern, v.s)
      [] fieldDef.type = "number" ->
            v.k = "number" /\ InRange(v.n, fieldDef)
      [] fieldDef.type = "integer" ->
            /\ v.k = "number"
            /\ IsFinite(v.n) /\ v.n % Scale = 0
            /\ InRange(v.n, fieldDef)
      [] fieldDef.type = "boolean" -> v.k = "boolean"
      [] fieldDef.type = "array" ->
            /\ v.k = "array"
            /\ \A j \in 1..Len(v.a) :
                  /\ v.a[j].k = "object"
                  /\ ConformsObject(v.a[j].o, fieldDef.items.properties)
      [] fieldDef.type = "object" ->
            v.k = "object" /\ ConformsObject(v.o, fieldDef.properties)

\* The entries o conform to fields: every non-optional field is present and
\* every present field conforms.
ConformsObject(o, fields) ==
    \A i \in 1..Len(fields) :
        /\ ~fields[i][2].optional => Present(o, fields[i][1])
        /\ Present(o, fields[i][1]) =>
              ConformsValue(OwnGet(o, fields[i][1]), fields[i][2])

-----------------------------------------------------------------------------
(* Properties *)

C2_ConformingDataIsValid ==
    (pc = "validated" /\ ConformsObject(data.o, schema.fields))
        => (validationResult.valid /\ validationResult.errors = <<>>)

\* The errors validateExtractedData returns for data d under the fields.
ErrorsOf(d, fields) == validateExtractedData(d, [fields |-> fields]).errors

RECURSIVE Concat(_, _)
\* The concatenation of the first n sequences of ss.
Concat(ss, n) == IF n = 0 THEN <<>> ELSE Concat(ss, n - 1) \o ss[n]

\* An item that conforms to every item schema of the model.
GoodItem ==
    Obj(<<<<"name", Str(<<"J","o","h","n">>)>>, <<"price", Num(30 * Scale)>>>>)

IsPlainObject(v) == v.k = "object"

\* The errors of the one field `field' whose value in d is an object, taken
\* one declared property at a time.
PerProperty(d, field) ==
    [i \in 1..Len(field[2].properties) |->
        ErrorsOf(d, <<<<field[1],
                        [field[2] EXCEPT !.properties = <<field[2].properties[i]>>]>>>>)]

\* The errors of item j of the array a held by the one array field `field',
\* the other items replaced by GoodItem: taken as a whole when the item is no
\* object, and one declared property at a time when it is.
PerItem(a, j, field) ==
    LET d == Obj(<<<<field[1],
                    Arr([k \in 1..Len(a) |-> IF k = j THEN a[k] ELSE GoodItem])>>>>)
        props == field[2].items.properties
    IN IF IsPlainObject(a[j])
       THEN Concat([i \in 1..Len(props) |->
                       ErrorsOf(d, <<<<field[1],
                                       [field[2] EXCEPT !.items.properties = <<props[i]>>]>>>>)],
                   Len(props))
       ELSE ErrorsOf(d, <<field>>)

\* C3: validateExtractedData never short-circuits.  The errors it returns are
\* the errors of the first field, then those of the second, and so on in
\* declaration order; inside an array field, the errors of item 0, then those
\* of item 1, and so on; inside an object (a field's value or an item), the
\* errors of its properties in declaration order.  A failure never suppresses
\* the errors of a later field, item or property.
C3_ErrorsAreConcatenation ==
    pc = "validated" =>
        /\ validationResult.errors =
              Concat([i \in 1..Len(schema.fields) |->
                         ErrorsOf(data, <<schema.fields[i]>>)],
                     Len(schema.fields))
        /\ \A i \in 1..Len(schema.fields) :
              LET field == schema.fields[i]
                  one == ErrorsOf(data, <<field>>)
                  v == Get(data.o, field[1])
              IN /\ (field[2].type = "array" /\ HasOwn(data.o, field[1])
                       /\ v.k = "array")
                        => one = Concat([j \in 1..Len(v.a) |-> PerItem(v.a, j, field)],
                                        Len(v.a))
                 /\ (field[2].type = "object" /\ HasOwn(data.o, field[1])
                       /\ IsPlainObject(v))
                        => one = Concat(PerProperty(data, field),
                                        Len(field[2].properties))

\* Two fields fail, and the errors of both are returned in declaration
\* order; the second field is an array both of whose items fail.
C3_Witness ==
    /\ pc = "validated"
    /\ Len(schema.fields) = 2
    /\ schema.fields[2] = NF.items
    /\ Len(validationResult.errors) = 3
    /\ validationResult.errors[1].field = schema.fields[1][1]
    /\ validationResult.errors[2].field = "items[0].price"
    /\ validationResult.errors[3].field = "items[1]"

\* The errors reported at a path are exactly one FIELD_MISSING.
OneMissingErrorAt(path) ==
    LET At(e) == e.field = path
        es == SelectSeq(validationResult.errors, At)
    IN Len(es) = 1 /\ es[1].code = FIELD_MISSING

\* The declared non-optional properties that the object entries o omit are
\* each reported by exactly one FIELD_MISSING at prefix + name.
OmittedAreMissing(o, fields, prefix) ==
    \A i \in 1..Len(fields) :
        (~fields[i][2].optional /\ ~HasOwn(o, fields[i][1]))
            => OneMissingErrorAt(prefix \o fields[i][1])

\* C4: for every non-optional field omitted from the data -- a top-level
\* field, a property of an object field or a property of an array item --
\* the errors contain exactly one entry at that field's path, with code
\* FIELD_MISSING, and no other error for that field.
C4_OmittedFieldIsMissing ==
    pc = "validated" =>
        /\ OmittedAreMissing(data.o, schema.fields, "")
        /\ \A i \in 1..Len(schema.fields) :
              LET field == schema.fields[i]
                  v == Get(data.o, field[1])
              IN /\ (field[2].type = "object" /\ HasOwn(data.o, field[1])
                       /\ IsPlainObject(v))
                        => OmittedAreMissing(v.o, field[2].properties,
                                             field[1] \o ".")
                 /\ (field[2].type = "array" /\ HasOwn(data.o, field[1])
                       /\ v.k = "array")
                        => \A j \in 1..Len(v.a) :
                              IsPlainObject(v.a[j]) =>
                                 OmittedAreMissing(v.a[j].o, field[2].items.properties,
                                    field[1] \o "[" \o ToString(j - 1) \o "].")

\* Some warning records the change of the value at path from vin to vout.
Recorded(warnings, path, vin, vout) ==
    \E k \in 1..Len(warnings) :
        /\ warnings[k].field = path
        /\ warnings[k].originalValue = vin
        /\ warnings[k].coercedValue = vout

\* Date normalisation returned the YYYY-MM-DD date that the trimmed input
\* begins with: the input lost surrounding white space or a time suffix.
IsDateTrim(fieldDef, vin, vout) ==
    /\ fieldDef.type = "string" /\ ~fieldDef.hasEnum
    /\ fieldDef.format \in {"date", "date-time"}
    /\ vin.k = "string" /\ vout.k = "string"
    /\ RegexMatch(vout.s, IsoDateOnlyRe, TRUE).ok
    /\ StartsWith(Trim(vin.s), vout.s)

RECURSIVE Locations(_, _, _, _)
\* The places of the data the schema describes: for each declared field
\* present in the input entries `in', its path, its definition, its input
\* value vin and its value vout in the output entries `out'.  An array field
\* holding an array is followed into its items and an object field holding
\* an object into its properties; an item that is not an object is a place
\* of its own (isField FALSE), under the definition of the items.
Locations(in, out, fields, prefix) ==
    UNION {
        LET name == fields[i][1]
            fieldDef == fields[i][2]
            path == prefix \o name
            vin == OwnGet(in, name)
            vout == Get(out, name)
        IN IF fieldDef.type = "array" /\ vin.k = "array" /\ vout.k = "array"
              /\ Len(vout.a) = Len(vin.a)
           THEN UNION {
                  IF IsPlainObject(vin.a[j]) /\ IsPlainObject(vout.a[j])
                  THEN Locations(vin.a[j].o, vout.a[j].o,
                                 fieldDef.items.properties,
                                 path \o "[" \o ToString(j - 1) \o "].")
                  ELSE {[path |-> path \o "[" \o ToString(j - 1) \o "]",
                         isField |-> FALSE, fieldDef |-> fieldDef.items,
                         vin |-> vin.a[j], vout |-> vout.a[j]]}
                  : j \in 1..Len(vin.a)}
           ELSE IF fieldDef.type = "object" /\ IsPlainObject(vin)
                   /\ IsPlainObject(vout)
           THEN Locations(vin.o, vout.o, fieldDef.properties, path \o ".")
           ELSE {[path |-> path, isField |-> TRUE, fieldDef |-> fieldDef,
                  vin |-> vin, vout |-> vout]}
        : i \in {i \in 1..Len(fields) : HasOwn(in, fields[i][1])}}

\* The places whose value coercion changed without a warning recording it;
\* with exceptDates, the changes IsDateTrim describes are left out.
Unrecorded(locations, warnings, exceptDates) ==
    {l \in locations :
        /\ l.vin # l.vout
        /\ ~Recorded(warnings, l.path, l.vin, l.vout)
        /\ ~(exceptDates /\ IsDateTrim(l.fieldDef, l.vin, l.vout))}

HasWarningAt(warnings, path) ==
    \E k \in 1..Len(warnings) : warnings[k].field = path

HasTypeMismatchAt(errors, path) ==
    \E k \in 1..Len(errors) :
        errors[k].field = path /\ errors[k].code = TYPE_MISMATCH

\* The places whose value validation reports as a TYPE_MISMATCH -- coercion
\* did not resolve it -- although coercion changed it or gave a warning for
\* it.
NotPassedThrough(locations, res) ==
    {l \in locations :
        /\ HasTypeMismatchAt(res.errors, l.path)
        /\ (l.vin # l.vout \/ HasWarningAt(res.warnings, l.path))}

\* C6: coerceExtractedData and validateExtractedData return normally on any
\* data, and a value whose type coercion cannot resolve -- validation reports
\* a TYPE_MISMATCH for it -- is the input value, unchanged and without a
\* warning.
C6_NeverThrowsAndPassesThrough ==
    /\ pc = "coerced" => ~coerceResult.threw
    /\ pc = "validated" =>
          /\ ~validationResult.threw
          /\ NotPassedThrough(Locations(data.o, validationResult.coercedData,
                                        schema.fields, ""),
                              validationResult) = {}

\* A string whose trimmed, lower-cased form is 'null', 'none', 'n/a', 'na',
\* 'undefined' or ''.
IsNullLike(v) ==
    v.k = "string" /\ ToLowerCase(Trim(v.s)) \in NULL_STRINGS

WarningsAt(warnings, path) ==
    {k \in 1..Len(warnings) : warnings[k].field = path}

\* C7: a null-like string held by a declared field present in the data is
\* replaced by null with one warning when the field is optional, whatever
\* its type, enum or format, and is not replaced by null when the field is
\* not optional.
C7_NullLikeBecomesNullIffOptional ==
    pc = "coerced" =>
        \A l \in Locations(data.o, coerceResult.data, schema.fields, "") :
            (l.isField /\ IsNullLike(l.vin)) =>
                IF l.fieldDef.optional
                THEN /\ l.vout = Null
                     /\ Cardinality(WarningsAt(coerceResult.warnings,
                                               l.path)) = 1
                ELSE l.vout # Null

\* Where parseFloat stops reading str.
ParseFloatEnd(st) ==
    IF st.inf THEN st.i + Len(<<"I","n","f","i","n","i","t","y">>) ELSE st.i

\* str begins with a floating-point literal: parseFloat reads a number.
HasNumericPrefix(str) == ~ParseFloat(str).nan

\* The whole of str is a floating-point literal: parseFloat reads a number
\* and stops at the end of str.
IsFloatLiteral(str) ==
    /\ HasNumericPrefix(str)
    /\ ParseFloatEnd(PFExp(PFFrac(PFInt(PFInfinity(PFSign(PFStart(str)))))))
           = Len(str) + 1

\* The string values of the number and integer fields of the data.
NumericFieldStrings(locations) ==
    {l \in locations :
        l.isField /\ l.fieldDef.type \in {"number", "integer"}
        /\ l.vin.k = "string"}

\* C8: a string held by a number or integer field becomes a number only if
\* the whole trimmed string is a floating-point literal; a string that only
\* begins with one is left unchanged without a warning, and validation
\* reports TYPE_MISMATCH for it.
C8_OnlyWholeLiteralsBecomeNumbers ==
    /\ pc = "coerced" =>
          \A l \in NumericFieldStrings(Locations(data.o, coerceResult.data,
                                                 schema.fields, "")) :
              /\ l.vout.k = "number" => IsFloatLiteral(Trim(l.vin.s))
              /\ (HasNumericPrefix(Trim(l.vin.s))
                  /\ ~IsFloatLiteral(Trim(l.vin.s))) =>
                    (l.vout = l.vin
                     /\ ~HasWarningAt(coerceResult.warnings, l.path))
    /\ pc = "validated" =>
          \A l \in NumericFieldStrings(Locations(data.o,
                                                 validationResult.coercedData,
                                                 schema.fields, "")) :
              (HasNumericPrefix(Trim(l.vin.s))
               /\ ~IsFloatLiteral(Trim(l.vin.s))) =>
                    HasTypeMismatchAt(validationResult.errors, l.path)

\* The members of the enum whose normalised form is that of the string s.
NormalisedMatches(s, enum) ==
    {m \in Range(enum) : normalizeEnumValue(m) = normalizeEnumValue(s)}

\* C9: for a string field with an enum, an exact member is returned
\* unchanged with no warning; a string that is no member but whose normalised
\* form is that of a member is replaced by such a member with exactly one
\* warning; a string matching no member is returned unchanged with no warning.
C9_EnumCoercion ==
    pc = "coerced" =>
        \A l \in Locations(data.o, coerceResult.data, schema.fields, "") :
            (l.isField /\ l.fieldDef.type = "string" /\ l.fieldDef.hasEnum
             /\ l.vin.k = "string") =>
                LET n == Cardinality(WarningsAt(coerceResult.warnings, l.path))
                    matches == NormalisedMatches(l.vin.s, l.fieldDef.enum)
                IN IF l.vin.s \in Range(l.fieldDef.enum) \/ matches = {}
                   THEN l.vout = l.vin /\ n = 0
                   ELSE /\ l.vout.k = "string" /\ l.vout.s \in matches
                        /\ Recorded(coerceResult.warnings, l.path,
                                    l.vin, l.vout)
                        /\ n = 1

\* The value has the declared type: a string, a number, an integral number
\* or a boolean.
HasDeclaredType(v, type) ==
    CASE type = "string" -> v.k = "string"
      [] type = "number" -> v.k = "number"
      [] type = "integer" -> v.k = "number" /\ NumberIsInteger(v.n)
      [] type = "boolean" -> v.k = "boolean"
      [] OTHER -> FALSE

\* Every declared field present in the entries d, at any depth, holds a
\* value of its declared type.
AlreadyTyped(d, fields) ==
    \A l \in Locations(d, d, fields, "") :
        l.isField /\ HasDeclaredType(l.vin, l.fieldDef.type)

\* A string that string coercion has nothing to do on: an exact member of
\* the enum of a field that has one; otherwise a YYYY-MM-DD date in a field
\* of date or date-time format; otherwise, in an optional field, a string
\* that is not null-like.
IsSettledString(v, fieldDef) ==
    IF fieldDef.hasEnum THEN v.s \in Range(fieldDef.enum)
    ELSE IF fieldDef.format \in {"date", "date-time"}
    THEN RegexMatch(v.s, IsoDateOnlyRe, TRUE).ok
    ELSE fieldDef.optional => ~IsNullLike(v)

AlreadySettled(d, fields) ==
    /\ AlreadyTyped(d, fields)
    /\ \A l \in Locations(d, d, fields, "") :
          l.fieldDef.type = "string" => IsSettledString(l.vin, l.fieldDef)

\* Coercion returned the input value of every declared field present in the
\* data, and gave no warning.
NothingCoerced ==
    /\ \A l \in Locations(data.o, coerceResult.data, schema.fields, "") :
          l.vout = l.vin
    /\ coerceResult.warnings = <<>>

\* C10 as stated: when every declared field present in the data holds a
\* value of its declared type, coerceExtractedData returns each value as it
\* was and no warning.
C10_TypedDataIsUnchanged ==
    (pc = "coerced" /\ AlreadyTyped(data.o, schema.fields)) => NothingCoerced

\* C10 as amended: when every declared field present in the data holds a
\* value of its declared type, where the string of a string field is an exact
\* member of the field's enum if it has one, otherwise a YYYY-MM-DD date if
\* the field has date or date-time format, otherwise not a null-like string
\* if the field is optional, coerceExtractedData returns each value as it was
\* and no warning.
C10_SettledDataIsUnchanged ==
    (pc = "coerced" /\ AlreadySettled(data.o, schema.fields)) => NothingCoerced

\* Coercion ran on an object whose properties, one of them an integer,
\* already had their types.
C10_Witness ==
    /\ pc = "coerced"
    /\ schema.fields = <<NF.address>>
    /\ AlreadySettled(data.o, schema.fields)
    /\ \E l \in Locations(data.o, coerceResult.data, schema.fields, "") :
          l.path = "address.count" /\ l.vout.k = "number"

\* The year a US-format date stands for: a year written with two digits is
\* in 2000-2049 or 1950-1999, any other year is the number written.
UsYear(y) ==
    IF Len(y) = 2
    THEN (IF ParseDigits(y) < 50 THEN 2000 + ParseDigits(y)
          ELSE 1900 + ParseDigits(y))
    ELSE ParseDigits(y)

\* coerceExtractedData replaced the value of the one field of the data by
\* the string iso and recorded it in its one warning.
CoercedTo(iso) ==
    /\ coerceResult.data = <<<<data.o[1][1], Str(iso)>>>>
    /\ coerceResult.warnings
           = <<Warning(data.o[1][1], data.o[1][2], Str(iso))>>

\* coerceExtractedData returned the data as it was, without a warning.
LeftUnchanged ==
    coerceResult.data = data.o /\ coerceResult.warnings = <<>>

\* C11: in a date field, a US-format value M/D/Y with month in 1..12, day in
\* 1..31 and year in 1900..2100 -- a two-digit year yy standing for 2000+yy
\* below 50 and for 1900+yy from 50 on -- becomes the zero-padded YYYY-MM-DD
\* with one warning; with a month, day or year out of range it is returned
\* unchanged with no warning.
C11_UsDates ==
    pc = "coerced" =>
        \A m \in DateTexts.months, d \in DateTexts.days,
           y \in DateTexts.years :
            data.o[1][2] = Str(UsDateText(m, d, y)) =>
                IF /\ ParseDigits(m) \in 1..12 /\ ParseDigits(d) \in 1..31
                   /\ UsYear(y) \in 1900..2100
                THEN CoercedTo(NatToString(UsYear(y)) \o <<"-">>
                               \o PadStart2(ParseDigits(m)) \o <<"-">>
                               \o PadStart2(ParseDigits(d)))
                ELSE LeftUnchanged

\* C12: in a date field, a value of the form YYYY-MM-DD is returned as it is
\* with no warning, and a value made of YYYY-MM-DD and a time suffix is
\* returned as its YYYY-MM-DD part with no warning.
C12_IsoDatesAndTimeSuffix ==
    pc = "coerced" =>
        \A dt \in DateTexts.isoDates, sfx \in DateTexts.suffixes :
            data.o[1][2] = Str(dt \o sfx) =>
                /\ coerceResult.data = <<<<data.o[1][1], Str(dt)>>>>
                /\ coerceResult.warnings = <<>>

\* coerceExtractedData on the schema items: array<object{price: number}> and
\* the input {items: [{price: '10.50'}]}.
PriceExample ==
    coerceExtractedData(
        Obj(<<<<"items",
                Arr(<<Obj(<<<<"price", Str(<<"1","0",".","5","0">>)>>>>)>>)>>>>),
        <<<<"items", ArrayField(FALSE, <<F.cost>>)>>>>)

\* C13: every warning carries the full path of the value it is about --
\* '<field>[<index>].<prop>' in an array item, '<field>.<prop>' in an object,
\* composed for deeper nesting -- and for items: array<object{price: number}>
\* with input {items: [{price: '10.50'}]} there is exactly one warning, at
\* 'items[0].price', and items[0].price is 10.5.
C13_WarningPaths ==
    /\ pc = "coerced" =>
          \A k \in 1..Len(coerceResult.warnings) :
              \E l \in Locations(data.o, coerceResult.data, schema.fields, "") :
                  /\ l.path = coerceResult.warnings[k].field
                  /\ l.vin = coerceResult.warnings[k].originalValue
                  /\ l.vout = coerceResult.warnings[k].coercedValue
    /\ PriceExample.warnings
           = <<Warning("items[0].price", Str(<<"1","0",".","5","0">>),
                       Num(1050))>>
    /\ PriceExample.data
           = <<<<"items", Arr(<<Obj(<<<<"price", Num(1050)>>>>)>>)>>>>

\* Coercion changed a value two objects deep.
C13_Witness ==
    /\ pc = "coerced"
    /\ schema.fields = <<NF.address>>
    /\ Len(coerceResult.warnings) = 1
    /\ coerceResult.warnings[1].field = "address.geo.lat"

\* The number is below the min or above the max of the definition.
OutOfRange(n, fieldDef) ==
    \/ fieldDef.hasMin /\ n < fieldDef.min
    \/ fieldDef.hasMax /\ n > fieldDef.max

HasInvalidAt(errors, path) ==
    \E k \in 1..Len(errors) :
        errors[k].field = path /\ errors[k].code = FIELD_INVALID

\* C14: a number or integer field whose value after coercion has the declared
\* type but is below min or above max gets an error with code FIELD_INVALID
\* and none with code TYPE_MISMATCH.
C14_OutOfRangeIsInvalid ==
    pc = "validated" =>
        \A l \in Locations(data.o, validationResult.coercedData,
                           schema.fields, "") :
            (/\ l.isField /\ l.fieldDef.type \in {"number", "integer"}
             /\ HasDeclaredType(l.vout, l.fieldDef.type)
             /\ OutOfRange(l.vout.n, l.fieldDef)) =>
                /\ HasInvalidAt(validationResult.errors, l.path)
                /\ ~HasTypeMismatchAt(validationResult.errors, l.path)

\* The string '0' of an integer field with min 1 was coerced to 0 and
\* reported as invalid.
C14_Witness ==
    /\ pc = "validated"
    /\ schema.fields = <<F.qty>>
    /\ data.o = <<<<"qty", Str(<<"0">>)>>>>
    /\ validationResult.coercedData = <<<<"qty", Num(0)>>>>
    /\ Len(validationResult.errors) = 1
    /\ validationResult.errors[1].code = FIELD_INVALID

\* C15: every FIELD_INVALID error for a string value -- one that is no
\* member of the field's enum or fails the field's pattern -- carries the
\* member `expected' (the enum list, or the pattern).
C15_InvalidStringErrorsCarryExpected ==
    pc = "validated" =>
        \A k \in 1..Len(validationResult.errors) :
            (/\ validationResult.errors[k].code = FIELD_INVALID
             /\ validationResult.errors[k].value.k = "string") =>
                "expected" \in validationResult.errors[k].keys

\* The names the fields declare.
Declared(fields) == {fields[i][1] : i \in 1..Len(fields)}

\* C16: coerceExtractedData returns every key of the input that the schema
\* does not declare with its value unchanged, adds no key the input lacks,
\* keeps the null of a declared field, and gives no warning for any of
\* these.
C16_PassThrough ==
    pc = "coerced" =>
        /\ \A i \in 1..Len(data.o) :
              data.o[i][1] \notin Declared(schema.fields) =>
                  /\ HasOwn(coerceResult.data, data.o[i][1])
                  /\ OwnGet(coerceResult.data, data.o[i][1]) = data.o[i][2]
                  /\ ~HasWarningAt(coerceResult.warnings, data.o[i][1])
        /\ \A i \in 1..Len(coerceResult.data) :
              HasOwn(data.o, coerceResult.data[i][1])
        /\ \A name \in Declared(schema.fields) :
              ~HasOwn(data.o, name) =>
                  ~HasWarningAt(coerceResult.warnings, name)
        /\ \A i \in 1..Len(data.o) :
              (data.o[i][1] \in Declared(schema.fields)
               /\ data.o[i][2] = Null) =>
                  /\ OwnGet(coerceResult.data, data.o[i][1]) = Null
                  /\ ~HasWarningAt(coerceResult.warnings, data.o[i][1])

-----------------------------------------------------------------------------
(* Schema definition validation *)

IsMapping(v) == v.k = "object"

HasType(def, type) == IsMapping(def) /\ GetOf(def, "type") = Str(type)

RECURSIVE FieldsOf(_)
\* Every <<name, definition>> a mapping of fields declares, at every nesting
\* level: the properties of an array field's items and of an object field
\* are fields too.
FieldsOf(fields) ==
    UNION {LET def == fields.o[i][2]
               nested ==
                   IF HasType(def, Txt.array)
                   THEN GetOf(GetOf(def, "items"), "properties")
                   ELSE IF HasType(def, Txt.object)
                   THEN GetOf(def, "properties")
                   ELSE Undefined
           IN {fields.o[i]}
              \cup (IF IsMapping(nested) THEN FieldsOf(nested) ELSE {}) :
           i \in 1..Len(fields.o)}

\* The fields of a document whose `fields' is a mapping.
DocumentFields(doc) ==
    IF IsMapping(doc) /\ IsMapping(GetOf(doc, "fields"))
    THEN FieldsOf(GetOf(doc, "fields"))
    ELSE {}

IsIdentifier(name) ==
    /\ name # <<>>
    /\ name[1] \in Range(UpperChars) \cup Range(LowerChars) \cup {"_"}
    /\ \A i \in 2..Len(name) :
           name[i] \in Range(UpperChars) \cup Range(LowerChars)
                       \cup Range(DigitChars) \cup {"_"}

EnumHasDuplicateOrNonString(def) ==
    LET enum == GetOf(def, "enum")
    IN /\ enum.k = "array"
       /\ \/ \E i \in 1..Len(enum.a) : enum.a[i].k # "string"
          \/ \E i, j \in 1..Len(enum.a) : i # j /\ enum.a[i] = enum.a[j]

MinAboveMax(def) ==
    /\ GetOf(def, "min").k = "number"
    /\ GetOf(def, "max").k = "number"
    /\ GetOf(def, "min").n > GetOf(def, "max").n

\* C17: validateSchema throws for every document with an empty fields map, a
\* field name that is not an identifier, an array field without items, an
\* object field without properties, an enum with a duplicate or a non-string
\* entry, or min > max.
C17_RejectsListedViolations ==
    (/\ pc = "schema_validated"
     /\ IsMapping(document)
     /\ IsMapping(GetOf(document, "fields"))
     /\ \/ GetOf(document, "fields").o = <<>>
        \/ \E f \in DocumentFields(document) :
              \/ ~IsIdentifier(f[1])
              \/ HasType(f[2], Txt.array) /\ GetOf(f[2], "items").k = "undefined"
              \/ HasType(f[2], Txt.object)
                 /\ GetOf(f[2], "properties").k = "undefined"
              \/ IsMapping(f[2]) /\ EnumHasDuplicateOrNonString(f[2])
              \/ IsMapping(f[2]) /\ MinAboveMax(f[2]))
    => schemaResult.threw

PatternCompiles(def) ==
    GetOf(def, "pattern").k = "string" /\ ~RegExpThrows(GetOf(def, "pattern").s)

EnumIsWellFormed(def) ==
    LET enum == GetOf(def, "enum")
    IN /\ enum.k = "array"
       /\ Len(enum.a) > 0
       /\ \A i \in 1..Len(enum.a) : enum.a[i].k = "string"
       /\ \A i, j \in 1..Len(enum.a) : i # j => enum.a[i] # enum.a[j]

HasProperties(properties) == IsMapping(properties) /\ Len(properties.o) > 0

\* The schema invariants of one field.
FieldInvariant(name, def) ==
    /\ IsIdentifier(name)
    /\ IsMapping(def)
    /\ GetOf(def, "enum").k # "undefined" => EnumIsWellFormed(def)
    /\ HasType(def, Txt.array) =>
           /\ HasType(GetOf(def, "items"), Txt.object)
           /\ HasProperties(GetOf(GetOf(def, "items"), "properties"))
    /\ HasType(def, Txt.object) => HasProperties(GetOf(def, "properties"))
    /\ ~MinAboveMax(def)
    /\ GetOf(def, "pattern").k # "undefined" => PatternCompiles(def)

\* C18: in every document validateSchema accepts, every field at every
\* nesting level, whatever its type, has an identifier as its name, an enum (if
\* any) that is non-empty with unique string members, an object item schema
\* with a property (array), a property (object), min <= max when both are
\* present, and a pattern (if any) that compiles.
C18_AcceptedSchemasSatisfyInvariants ==
    (pc = "schema_validated" /\ ~schemaResult.threw)
    => \A f \in DocumentFields(document) : FieldInvariant(f[1], f[2])

\* The one violation the documented order reports: the document, then its
\* fields, then each field in the order the document declares them, then
\* metadata, then confidence.
FirstInDocumentedOrder(doc) ==
    LET fields == GetOf(doc, "fields")
    IN IF ~IsMapping(doc)
       THEN SchemaValidationError(ErrorCodes.INVALID_JSON, Undefined)
       ELSE IF ~IsMapping(fields) \/ fields.o = <<>>
       THEN SchemaValidationError(ErrorCodes.MISSING_FIELDS, Undefined)
       ELSE IF ValidateEntries(fields.o, 1, <<>>).threw
       THEN ValidateEntries(fields.o, 1, <<>>)
       ELSE IF GetOf(doc, "metadata").k # "undefined"
               /\ validateMetadata(GetOf(doc, "metadata")).threw
       THEN validateMetadata(GetOf(doc, "metadata"))
       ELSE IF GetOf(doc, "confidence").k # "undefined"
       THEN validateConfidenceConfig(GetOf(doc, "confidence"))
       ELSE Returned

\* C19: validateSchema reports exactly the first violation in the documented
\* order: a violation of an earlier-declared field wins over those of later
\* fields, of metadata and of confidence.
C19_FirstViolationInDocumentedOrder ==
    pc = "schema_validated" => schemaResult = FirstInDocumentedOrder(document)

\* The entries validateArrayField or validateObjectField goes on to loop
\* over, with the prefix of their paths: def has passed every check made
\* before that loop.  <<>> entries otherwise.
NestedLoop(fieldName, def) ==
    LET ok == /\ IsMapping(def)
              /\ GetOf(def, "optional").k \in {"undefined", "boolean"}
              /\ GetOf(def, "description").k \in {"undefined", "string"}
        items == GetOf(def, "items")
    IN IF /\ ok /\ HasType(def, Txt.array) /\ HasType(items, Txt.object)
          /\ HasProperties(GetOf(items, "properties"))
       THEN [entries |-> ObjectEntries(GetOf(items, "properties")),
             prefix |-> fieldName \o <<".","i","t","e","m","s",".">>]
       ELSE IF /\ ok /\ HasType(def, Txt.object)
               /\ HasProperties(GetOf(def, "properties"))
       THEN [entries |-> ObjectEntries(GetOf(def, "properties")),
             prefix |-> fieldName \o <<".">>]
       ELSE [entries |-> <<>>, prefix |-> <<>>]

RECURSIVE Offender(_, _, _, _)
\* Where the violation that ValidateEntries reports is located: the path of
\* the offending field or property and its nesting depth (0: a top-level
\* field).  Depth -1 when no entry is rejected.
Offender(entries, i, prefix, depth) ==
    LET name == entries[i][1]
        def == entries[i][2]
        path == prefix \o name
        loop == NestedLoop(path, def)
    IN IF i > Len(entries) THEN [path |-> <<>>, depth |-> -1]
       ELSE IF validateFieldName(name).threw
       THEN [path |-> path, depth |-> depth]
       ELSE IF ~validateFieldDefinition(path, def).threw
       THEN Offender(entries, i + 1, prefix, depth)
       ELSE IF loop.entries = <<>>
       THEN [path |-> path, depth |-> depth]
       ELSE Offender(loop.entries, 1, loop.prefix, depth + 1)

DocumentOffender(doc) ==
    IF IsMapping(doc) /\ HasProperties(GetOf(doc, "fields"))
    THEN Offender(ObjectEntries(GetOf(doc, "fields")), 1, <<>>, 0)
    ELSE [path |-> <<>>, depth |-> -1]

\* C20: when the violation lies in a nested property (its name or its
\* definition), the error's field is the full path of that property:
\* <field>.items.<prop> under an array field, <field>.<prop> under an object
\* field, composed for deeper nesting.
C20_NestedErrorsCarryFullPath ==
    (/\ pc = "schema_validated"
     /\ schemaResult.threw
     /\ DocumentOffender(document).depth > 0)
    => schemaResult.field = Str(DocumentOffender(document).path)

-----------------------------------------------------------------------------
(* Calls on objects held by reference *)

\* What a call made on its own returns for the arguments of call c.
ReturnedAlone(c) ==
    IF c.op = "coerce" THEN coerceExtractedData(c.data, c.fields)
    ELSE validateExtractedData(c.data, [fields |-> c.fields])

\* What call c returned, as the heap h holds it.
ReturnedIn(h, c) ==
    LET coerced == [data |-> Load(h, c.coercedData).o,
                    warnings |-> h[c.warnings.at].a, threw |-> c.threw]
    IN IF c.op = "coerce" THEN coerced
       ELSE ValidationResult(coerced, h[c.errors.at].a)

\* C21: whatever calls came before or come after, each call's errors,
\* warnings and coerced data are exactly those the same call returns when it
\* is the only call ever made.
C21_CallsAreIndependent ==
    \A i \in 1..Len(calls) : ReturnedIn(heap, calls[i]) = ReturnedAlone(calls[i])

\* Two calls, the first of which returned warnings and the second of which
\* returned others.
C21_Witness ==
    /\ Len(calls) = 2
    /\ heap[calls[1].warnings.at].a # <<>>
    /\ heap[calls[2].warnings.at].a # <<>>
    /\ heap[calls[1].warnings.at].a # heap[calls[2].warnings.at].a
    /\ calls[2].op = "validate"
    /\ heap[calls[2].errors.at].a # <<>>

\* C22: after a call (and after every later call) its data argument, with
\* every object and array reachable from it, is deep-equal to what was passed;
\* the coerced values are in the returned copy only.
C22_InputsAreNotModified ==
    \A i \in 1..Len(calls) : Load(heap, calls[i].input) = calls[i].data

\* A call that coerced a value inside a nested object: the returned copy
\* differs from the data, at an address of its own.
C22_Witness ==
    \E i \in 1..Len(calls) :
        /\ calls[i].input.k = "ref"
        /\ calls[i].coercedData # calls[i].input
        /\ Load(heap, calls[i].coercedData) # calls[i].data
        /\ \E j \in 1..Len(calls[i].data.o) :
              /\ calls[i].data.o[j][2].k \in {"object", "array"}
              /\ Load(heap, calls[i].coercedData).o[j][2] # calls[i].data.o[j][2]

-----------------------------------------------------------------------------
(* The extraction pipeline *)

\* The run is over with a resolved result.
Resolved == pc = "done" /\ pipelineResult.resolved

\* The run reached validation and validate_data returned a result.
Validated == Len(steps) >= 3 /\ steps[3].success

\* The response of the LLM and the result of validation in a run that
\* reached validation.
Extraction == steps[2].data
Validation == steps[3].data

\* C23: when the extraction succeeded and the data validates, the result has
\* success and meetsThreshold true if the schema has no confidence config,
\* otherwise meetsThreshold = (confidence >= threshold) and success =
\* (meetsThreshold or not failOnLowConfidence), a failure for this reason
\* having exactly one CONFIDENCE_ERROR; when validation fails the result has
\* success false, meetsThreshold false and the validation errors.
C23_DecisionFlow ==
    (Resolved /\ Validated) =>
        IF Validation.valid
        THEN /\ ~schema.hasConfidence =>
                   pipelineResult.success /\ pipelineResult.meetsThreshold
             /\ schema.hasConfidence =>
                   /\ pipelineResult.meetsThreshold =
                         (Extraction.confidence.n >= schema.confidence.threshold)
                   /\ pipelineResult.success =
                         (pipelineResult.meetsThreshold
                            \/ ~schema.confidence.failOnLowConfidence)
             /\ ~pipelineResult.success =>
                   pipelineResult.errors = <<[code |-> "CONFIDENCE_ERROR"]>>
        ELSE /\ ~pipelineResult.success
             /\ ~pipelineResult.meetsThreshold
             /\ pipelineResult.errors = Validation.errors

\* A run whose confidence equals the threshold of a schema that fails on low
\* confidence, and which succeeded.
C23_Witness ==
    /\ Resolved /\ Validated /\ Validation.valid
    /\ schema.hasConfidence
    /\ schema.confidence.failOnLowConfidence
    /\ schema.confidence.threshold > 0
    /\ Extraction.confidence.n = schema.confidence.threshold
    /\ pipelineResult.success

\* C24: whenever extract resolves with success = true, result.data satisfies
\* the schema: every non-optional field is present and non-null and every
\* present value has its declared type and lies within its enum, pattern,
\* min and max, also where the raw value had to be coerced.
C24_SuccessDataConforms ==
    (Resolved /\ pipelineResult.success) =>
        /\ pipelineResult.hasData
        /\ pipelineResult.data.k = "object"
        /\ ConformsObject(pipelineResult.data.o, schema.fields)

\* C25: every result with success = false carries no data.
C25_DataOnlyOnSuccess ==
    (Resolved /\ ~pipelineResult.success) => ~pipelineResult.hasData

\* C26: whenever validation coerced a value, the resolved result has a
\* warnings list holding the warnings validateExtractedData returned.
C26_WarningsSurfaced ==
    (Resolved /\ Validated /\ Validation.warningsDefined) =>
        pipelineResult.hasWarnings

\* The steps of a run in the order extract takes them.
StepOrder == <<"create_client", "llm_extract", "validate_data", "check_confidence">>

\* C28: the recorded steps are always a prefix of create_client, llm_extract,
\* validate_data, check_confidence; validate_data is recorded only after
\* llm_extract succeeded with data, and check_confidence only after
\* validate_data returned valid = true.
C28_StepOrdering ==
    /\ Len(steps) <= Len(StepOrder)
    /\ \A i \in 1..Len(steps) : steps[i].step = StepOrder[i]
    /\ Len(steps) >= 3 => steps[2].success /\ Truthy(steps[2].data)
    /\ Len(steps) >= 4 => steps[3].success /\ steps[3].data.valid

\* A run that a validation failure ended after three steps.
C28_Witness ==
    /\ pc = "done"
    /\ Len(steps) = 3
    /\ steps[3].success
    /\ ~steps[3].data.valid

\* C29: extract never rejects: whatever fails or throws, the run ends with a
\* resolved result, and in every resolved result success is true exactly
\* when the errors list is empty.
C29_NeverRejects ==
    pc = "done" =>
        /\ pipelineResult.resolved
        /\ pipelineResult.success <=> (pipelineResult.errors = <<>>)

\* A run in which a step threw before any step was recorded (the client's
\* constructor threw null or undefined) and which resolved all the same.
C29_Witness ==
    /\ Resolved
    /\ steps = <<>>
    /\ pipelineResult.errors = <<[code |-> "UNKNOWN_ERROR"]>>

-----------------------------------------------------------------------------
(* Ambiguous enums *)

\* The member of the enum declared earliest among those whose normalised
\* form is that of the string s.
EarliestMatch(s, enum) ==
    enum[CHOOSE i \in 1..Len(enum) :
            /\ normalizeEnumValue(enum[i]) = normalizeEnumValue(s)
            /\ \A j \in 1..(i - 1) :
                  normalizeEnumValue(enum[j]) # normalizeEnumValue(s)]

\* C27: when the input is no exact member and two or more members have its
\* normalised form, the member declared earliest is returned; an exact member
\* is returned unchanged even if an earlier member has the same normalised
\* form.
C27_FirstMatchInDeclarationOrder ==
    pc = "coerced" =>
        \A l \in Locations(data.o, coerceResult.data, schema.fields, "") :
            (l.isField /\ l.fieldDef.type = "string" /\ l.fieldDef.hasEnum
             /\ l.vin.k = "string") =>
                IF l.vin.s \in Range(l.fieldDef.enum) THEN l.vout = l.vin
                ELSE Cardinality(NormalisedMatches(l.vin.s, l.fieldDef.enum)) >= 2
                        => l.vout = Str(EarliestMatch(l.vin.s, l.fieldDef.enum))

\* C30: coercing the data a first coerceExtractedData call returned, with the
\* same fields, returns data equal to the first pass's output and no
\* warnings.
C30_FixedPointInOnePass ==
    pc = "recoerced" =>
        /\ ~secondResult.threw
        /\ secondResult.data = coerceResult.data
        /\ secondResult.warnings = <<>>
====
